---- MODULE Spec2Model ----
(***************************************************************************)
(* A model of the M110 ZPL label printer web application: the Web          *)
(* Bluetooth transport (js/bluetooth.js), the printer protocol encoder and *)
(* chunker (printer.js) and the label-size helpers (utils.js).             *)
(*                                                                         *)
(* JavaScript runs to completion between awaits.  A position of the model  *)
(* is either an await point (a pending transport write, a timer) or a      *)
(* transient position inside one synchronous stretch of code; while the    *)
(* job is at a transient position no event of the environment is enabled   *)
(* (see AtAwait).                                                          *)
(***************************************************************************)
EXTENDS Integers, Sequences, FiniteSets, TLC

\* ------------------------------------------------------------------ bounds

\* The tallest bitmap of a modelled job: two 8-row slices, the last partial.
MaxHeight == 9
\* The most copies of a modelled printMultiple call.
MaxCopies == 2
\* The most chunks of one job whose write without response a live link rejects.
MaxRejects == 1
\* The most connection events (link loss, disconnect, connect) within one job.
MaxLinkEvents == 2
\* The longest data of a direct bluetooth.write call, and its largest chunk size.
MaxData == 5
MaxChunkSize == 3

\* ------------------------------------------------------- program constants

MAX_WIDTH == 384
CHUNK_DELAY == 30
DEFAULT_FEED_MM == 4
DPMM == 8
DefaultChunkSize == 100
DefaultDelayMs == 20
ROWS_PER_CHUNK == 8
MAX_WIDTH_PX == 384
MIN_WIDTH_MM == 20
MAX_WIDTH_MM == 48
SleepAfterInit == 50
SleepAfterHeader == 20
SleepBeforeFeed == 100
SleepBetweenCopies == 500

\* Lengths in millimetres are fixed-point numbers in units of 1/MmScale mm, so
\* that mm * DPMM is a whole number of half dots and Math.round is exact.
MmScale == 2 * DPMM

\* ----------------------------------------------------------- arithmetic

Min(a, b) == IF a < b THEN a ELSE b

\* Math.ceil(a / b) for a >= 0, b > 0.
CeilDiv(a, b) == (a + b - 1) \div b

RECURSIVE XorBits(_, _, _)
\* The bitwise exclusive or of the n low bits of a and b.
XorBits(a, b, n) ==
    IF n = 0 THEN 0
    ELSE (((a % 2) + (b % 2)) % 2) + 2 * XorBits(a \div 2, b \div 2, n - 1)

\* x ^ 0xFF stored into a Uint8Array element.
XorFF(x) == XorBits(x % 256, 255, 8)

\* The conversion of a number stored into a Uint8Array element (ToUint8).
ToUint8(x) == x % 256

\* Math.round(mm * 8), mm in units of 1/MmScale mm: floor(mm * 8 + 1/2).
mmToDots(mmU) == (2 * DPMM * mmU + MmScale) \div (2 * MmScale)

\* ------------------------------------------------------ protocol encoder

buildInitCommand == <<27, 64, 27, 51, 0>>

buildRasterHeader(width, height) ==
    <<29, 118, 48, 0,
      CeilDiv(width, 8) % 256, (CeilDiv(width, 8) \div 256) % 256,
      height % 256, (height \div 256) % 256>>

buildFeedCommand(dots) == <<27, 74, ToUint8(Min(dots, 255))>>

\* A mutant of convertBitmapForPrinter: the bytes are copied, not inverted.
convertBitmapKeep(bitmap) == bitmap

\* result[i] = bitmap[i] ^ 0xFF for every byte, into a new array.

convertBitmapForPrinter(bitmap) == [i \in 1..Len(bitmap) |-> XorFF(bitmap[i])]

\* Uint8Array.prototype.slice(a, b) for 0 <= a <= b, clamped to the length.
Slice(s, a, b) ==
    IF a >= Len(s) THEN <<>> ELSE SubSeq(s, a + 1, Min(b, Len(s)))

\* ------------------------------------------------------------------ state

VARIABLES
    \* js/bluetooth.js: the connection state.
    isConnected,          \* the module's isConnected flag
    gattConnected,        \* device?.gatt?.connected
    writeCharacteristic,  \* TRUE when writeCharacteristic is not null
    cpc,                  \* position of connect(): none | connecting | discover
    \* The call in progress and its arguments.
    job,
    connAtCall,           \* getConnectionStatus() when the call was made
    \* printer.js: position of printBitmap / printMultiple / feedPaper.
    ppc,
    copy,                 \* printMultiple's loop variable i
    chunk,                \* printBitmap's loop variable chunk
    \* js/bluetooth.js write(): its arguments and loop variable.
    wpc,
    wData,
    wChunkSize,
    wDelayMs,
    wI,
    \* The settled promise of the call, as its caller sees it.
    result,
    err,
    \* What the job did, in order: transport writes, timers, progress reports.
    log,
    rejects,
    linkEvents,
    \* The application's label size (state.labelWidth, state.labelHeight), in
    \* units of 1/MmScale mm, its validation, and the raster header of a
    \* bitmap rendered at the validated size.
    labelWidth,
    labelHeight,
    validation,
    rasterHeader,
    \* The application's markup and printable bitmap (state.zpl,
    \* state.currentBitmap).
    zpl,
    currentBitmap,
    \* The text box's value (elements.zplInput.value) and state.isPrinting.
    zplInput,
    isPrinting,
    \* The page's controls: elements.printBtn.disabled, the text of
    \* elements.connectBtnText, and whether elements.connectionStatus has the
    \* class connected.
    printBtnDisabled,
    connectBtnText,
    connectionStatus,
    \* js/zpl-renderer.js: the fields of the zplRenderer singleton, and what its
    \* last render call was given, returned and drew.
    renderer,
    rendered,
    \* The last direct call of parseZPL and of decodeCompressedHex: arguments
    \* and return value.
    parseCall,
    decodeCall,
    \* The last direct call of toMonochromeBitmap: arguments and return value.
    monoCall

connVars == <<isConnected, gattConnected, writeCharacteristic, cpc>>

callVars == <<job, connAtCall>>

writeVars == <<wpc, wData, wChunkSize, wDelayMs, wI>>

printVars == <<isConnected, gattConnected, writeCharacteristic, cpc, job,
               connAtCall, ppc, copy, chunk, wpc, wData, wChunkSize, wDelayMs, wI,
               result, err, log, rejects, linkEvents>>

sizeVars == <<labelWidth, labelHeight, validation, rasterHeader>>

uiVars == <<printBtnDisabled, connectBtnText, connectionStatus>>

previewVars == <<zpl, currentBitmap, zplInput, isPrinting, uiVars>>

renderVars == <<renderer, rendered>>

pureVars == <<parseCall, decodeCall, monoCall>>

\* Everything but the print path.
appVars == <<sizeVars, previewVars, renderVars, pureVars>>

vars == <<printVars, appVars>>

\* ------------------------------------------------------------- the inputs

\* The (width, height) pairs of the modelled jobs: the smallest label; a width
\* that is no multiple of 8 with exactly one full slice; two slices, the first
\* of more than one chunk; the widest label; a label one pixel too wide.
Dims ==
    {<<1, 1>>, <<9, MaxHeight - 1>>, <<100, MaxHeight>>, <<MAX_WIDTH, 3>>,
     <<MAX_WIDTH + 1, 1>>}

BitmapSeeds == {0, 171}

\* A bitmap whose bytes differ from their neighbours, so that a lost, repeated
\* or displaced byte shows.
Bitmap(seed, n) == [i \in 1..n |-> (seed + 37 * (i - 1)) % 256]

\* The packed length of a width x height bitmap, and one byte more.
BitmapLengths(width, height) ==
    {CeilDiv(width, 8) * height, CeilDiv(width, 8) * height + 1}

\* Feed distances in units of 1/MmScale mm: negative, zero, half-dot
\* boundaries, the default, and beyond one byte of dots.
FeedMms ==
    {-MmScale, -1, 0, 1, 5 * MmScale, (63 * MmScale) \div 2,
     32 * MmScale - 1, 32 * MmScale, 40 * MmScale}

NoJob ==
    [op |-> "none", bitmap |-> <<>>, width |-> 0, height |-> 0, copies |-> 0,
     mm |-> 0, data |-> <<>>, chunkSize |-> 0, delayMs |-> 0]

NoErr == [msg |-> "", wrapped |-> FALSE, offset |-> -1]

\* ------------------------------------------------------------- the log

WriteEv(data, mode) ==
    [kind |-> "write", data |-> data, mode |-> mode, st |-> "pending",
     a |-> 0, b |-> 0, c |-> 0, d |-> 0]

\* sleep(ms) of printer.js.
SleepEv(ms) ==
    [kind |-> "sleep", data |-> <<>>, mode |-> "", st |-> "",
     a |-> ms, b |-> 0, c |-> 0, d |-> 0]

\* The inter-chunk setTimeout of bluetooth.write.
DelayEv(ms) ==
    [kind |-> "delay", data |-> <<>>, mode |-> "", st |-> "",
     a |-> ms, b |-> 0, c |-> 0, d |-> 0]

\* A progress report (current, total, num/den); current = total = 0 for the
\* one-argument callback of a direct printBitmap call.
ProgressEv(current, total, num, den) ==
    [kind |-> "progress", data |-> <<>>, mode |-> "", st |-> "",
     a |-> current, b |-> total, c |-> num, d |-> den]

\* The indices of the log's transport writes that have not settled.
Pending == {k \in 1..Len(log) : log[k].kind = "write" /\ log[k].st = "pending"}

Settle(lg, k, st) == [lg EXCEPT ![k].st = st]

getConnectionStatus == isConnected /\ gattConnected

\* The job is suspended at an await (or there is none): only then can an event
\* of the environment run.
AtAwait ==
    \/ ppc = "idle"
    \/ ppc \in {"sleep50", "sleep20", "sleep100", "copyPause"}
    \/ wpc \in {"awaitNoResp", "awaitResp", "delay"}

PrintInit ==
    /\ isConnected = FALSE
    /\ gattConnected = FALSE
    /\ writeCharacteristic = FALSE
    /\ cpc = "none"
    /\ job = NoJob
    /\ connAtCall = FALSE
    /\ ppc = "idle"
    /\ copy = 0
    /\ chunk = 0
    /\ wpc = "none"
    /\ wData = <<>>
    /\ wChunkSize = 0
    /\ wDelayMs = 0
    /\ wI = 0
    /\ result = "none"
    /\ err = NoErr
    /\ log = <<>>
    /\ rejects = 0
    /\ linkEvents = 0

NoValidation == [valid |-> FALSE, error |-> "", widthPx |-> 0, heightPx |-> 0]

\* state.labelWidth = 40, state.labelHeight = 30; nothing validated yet.
SizeInit ==
    /\ labelWidth = 40 * MmScale
    /\ labelHeight = 30 * MmScale
    /\ validation = NoValidation
    /\ rasterHeader = <<>>

\* ------------------------------------------- js/bluetooth.js: connection

\* A connection event within a job counts against MaxLinkEvents.
LinkEventAllowed == ppc = "idle" \/ linkEvents < MaxLinkEvents

CountLinkEvent == linkEvents' = IF ppc = "idle" THEN linkEvents ELSE linkEvents + 1

jobVars == <<job, connAtCall, ppc, copy, chunk, wpc, wData, wChunkSize, wDelayMs,
             wI, result, err, log, rejects>>

\* connect() is called (handleConnect calls it only when getConnectionStatus()
\* is false) and waits for requestDevice.  A pending GATT write is rejected by
\* the browser when the link drops, before a later connect can get anywhere.
requestDevice ==
    /\ AtAwait
    /\ cpc = "none"
    /\ ~getConnectionStatus
    /\ Pending = {}
    /\ LinkEventAllowed
    /\ cpc' = "connecting"
    /\ CountLinkEvent
    /\ UNCHANGED <<isConnected, gattConnected, writeCharacteristic, jobVars>>

\* connect() is called by a caller that holds no application state.
ConnectStart == UNCHANGED appVars /\ requestDevice

\* device.gatt.connect() resolves.
ConnectGatt ==
    /\ UNCHANGED appVars
    /\ AtAwait
    /\ cpc = "connecting"
    /\ gattConnected' = TRUE
    /\ cpc' = "discover"
    /\ UNCHANGED <<isConnected, writeCharacteristic, jobVars, linkEvents>>

\* A service and a write characteristic are found: isConnected = true and
\* emit('connected', ...).
emitConnected ==
    /\ AtAwait
    /\ cpc = "discover"
    /\ gattConnected
    /\ writeCharacteristic' = TRUE
    /\ isConnected' = TRUE
    /\ cpc' = "none"
    /\ UNCHANGED <<gattConnected, jobVars, linkEvents>>

\* connect() succeeds with no listener for its event.
ConnectDone == UNCHANGED appVars /\ emitConnected

\* connect()'s catch block: any step failed; emit('error', ...) and the
\* rethrow, which the application answers with toasts only.
ConnectFail ==
    /\ UNCHANGED appVars
    /\ AtAwait
    /\ cpc \in {"connecting", "discover"}
    /\ isConnected' = FALSE
    /\ writeCharacteristic' = FALSE
    /\ cpc' = "none"
    /\ UNCHANGED <<gattConnected, jobVars, linkEvents>>

handleDisconnect ==
    /\ isConnected' = FALSE
    /\ writeCharacteristic' = FALSE

\* The link drops: gatt.connected turns false and gattserverdisconnected runs
\* handleDisconnect.
gattServerDisconnected ==
    /\ AtAwait
    /\ gattConnected
    /\ LinkEventAllowed
    /\ gattConnected' = FALSE
    /\ handleDisconnect
    /\ CountLinkEvent
    /\ UNCHANGED <<cpc, jobVars>>

\* The link drops with no listener for emit('disconnected', ...).
LinkLost == UNCHANGED appVars /\ gattServerDisconnected

\* disconnect(), which handleConnect calls when getConnectionStatus() is true.
disconnect ==
    /\ AtAwait
    /\ getConnectionStatus
    /\ LinkEventAllowed
    /\ gattConnected' = FALSE
    /\ handleDisconnect
    /\ CountLinkEvent
    /\ UNCHANGED <<cpc, jobVars>>

\* disconnect() is called with no listener for emit('disconnected', ...).
Disconnect == UNCHANGED appVars /\ disconnect

\* ------------------------------------------------------------ the calls

\* An async function of printer.js or bluetooth.js is called with the
\* arguments j and runs to its first position at.
BeginCall(j, at) ==
    /\ ppc = "idle"
    /\ result = "none"
    /\ job' = j
    /\ connAtCall' = getConnectionStatus
    /\ ppc' = at
    /\ copy' = 0
    /\ chunk' = 0
    /\ wpc' = "none"
    /\ wData' = <<>>
    /\ wChunkSize' = 0
    /\ wDelayMs' = 0
    /\ wI' = 0
    /\ result' = "pending"
    /\ err' = NoErr
    /\ log' = <<>>
    /\ rejects' = 0
    /\ linkEvents' = 0
    /\ UNCHANGED connVars

\* A call made by a caller that holds no application state.
NewCall(j, at) ==
    /\ UNCHANGED appVars
    /\ BeginCall(j, at)

CallPrintBitmap ==
    \E dim \in Dims, seed \in BitmapSeeds :
      \E n \in BitmapLengths(dim[1], dim[2]) :
        NewCall([NoJob EXCEPT !.op = "printBitmap", !.bitmap = Bitmap(seed, n),
                              !.width = dim[1], !.height = dim[2]], "check")

CallPrintMultiple ==
    \E dim \in Dims, c \in 1..MaxCopies :
        NewCall([NoJob EXCEPT !.op = "printMultiple",
                              !.bitmap = Bitmap(0, CeilDiv(dim[1], 8) * dim[2]),
                              !.width = dim[1], !.height = dim[2], !.copies = c],
                "check")

CallFeedPaper ==
    \E mm \in FeedMms :
        NewCall([NoJob EXCEPT !.op = "feedPaper", !.mm = mm], "feedCheck")

CallWrite ==
    \E n \in 0..MaxData, cs \in 1..MaxChunkSize, d \in {0, DefaultDelayMs} :
        NewCall([NoJob EXCEPT !.op = "write", !.data = Bitmap(1, n),
                              !.chunkSize = cs, !.delayMs = d], "directCall")

\* ---------------------------------------------------- error propagation

\* printBitmap awaits its writes inside try: its catch rethrows them as
\* "Print failed: ...".
InTry == ppc \in {"init", "header", "slice", "feed"}

\* A mutant of Throw: the error is swallowed and the write call returns.
ThrowSwallowed(msg, off, lg) ==
    /\ wpc' = "return"
    /\ log' = lg
    /\ UNCHANGED <<connVars, callVars, ppc, copy, chunk, wData, wChunkSize,
                   wDelayMs, wI, result, err, linkEvents>>

\* An error thrown at the job's current position rejects every promise up to
\* the caller's: neither printMultiple nor feedPaper catches, and printBitmap
\* rethrows.  Nothing else runs in between.
Throw(msg, off, lg) ==
    /\ result' = "rejected"
    /\ err' = [msg |-> msg, wrapped |-> InTry, offset |-> off]
    /\ ppc' = "idle"
    /\ wpc' = "none"
    /\ log' = lg
    /\ UNCHANGED <<connVars, callVars, copy, chunk, wData, wChunkSize,
                   wDelayMs, wI, linkEvents>>

\* The promise of the outermost call resolves.
Resolve(lg) ==
    /\ result' = "resolved"
    /\ ppc' = "idle"
    /\ wpc' = "none"
    /\ log' = lg
    /\ UNCHANGED <<connVars, callVars, copy, chunk, wData, wChunkSize,
                   wDelayMs, wI, err, rejects, linkEvents>>

\* ------------------------------------------------ js/bluetooth.js: write

\* A mutant of FailureOffset: the end of the failed chunk is reported.
FailureOffsetChunkEnd == wI + wChunkSize

\* The offset in `Write failed at byte ${i}`: the loop variable of this call.
FailureOffset == wI

\* bluetooth.write(data, chunkSize, delayMs) is called from position at.
BeginWrite(at, data, chunkSize, delayMs) ==
    /\ ppc' = at
    /\ wpc' = "entry"
    /\ wData' = data
    /\ wChunkSize' = chunkSize
    /\ wDelayMs' = delayMs
    /\ wI' = 0

\* if (!writeCharacteristic) throw ...; otherwise the loop starts at i = 0.
WriteEntry ==
    /\ UNCHANGED appVars
    /\ wpc = "entry"
    /\ IF ~writeCharacteristic
       THEN Throw("Not connected to printer", -1, log) /\ UNCHANGED rejects
       ELSE /\ wpc' = "loop"
            /\ wI' = 0
            /\ UNCHANGED <<connVars, callVars, ppc, copy, chunk, wData, wChunkSize,
                           wDelayMs, result, err, log, rejects, linkEvents>>

\* A mutant of CurrentChunk: the chunk ends one byte early.
CurrentChunkShort == Slice(wData, wI, Min(wI + wChunkSize, Len(wData)) - 1)

\* data.slice(i, Math.min(i + chunkSize, data.length))
CurrentChunk == Slice(wData, wI, Min(wI + wChunkSize, Len(wData)))

\* A mutant of AwaitWrite: the write's promise is not awaited.
AwaitWriteMissing(mode) == "chunkDone"

\* await writeCharacteristic.writeValue...(chunk): the position while the
\* promise is pending.
AwaitWrite(mode) == IF mode = "noResp" THEN "awaitNoResp" ELSE "awaitResp"

\* The loop's test, and the start of the chunk's write without response.  With
\* no characteristic both calls throw a TypeError at once, and the second is
\* rethrown as "Write failed at byte i".
WriteLoop ==
    /\ UNCHANGED appVars
    /\ wpc = "loop"
    /\ IF wI < Len(wData)
       THEN IF writeCharacteristic
            THEN /\ log' = Append(log, WriteEv(CurrentChunk, "noResp"))
                 /\ wpc' = AwaitWrite("noResp")
                 /\ UNCHANGED <<connVars, callVars, ppc, copy, chunk, wData,
                                wChunkSize, wDelayMs, wI, result, err, rejects,
                                linkEvents>>
            ELSE Throw("Write failed at byte", FailureOffset, log) /\ UNCHANGED rejects
       ELSE /\ wpc' = "return"
            /\ UNCHANGED <<connVars, callVars, ppc, copy, chunk, wData, wChunkSize,
                           wDelayMs, wI, result, err, log, rejects, linkEvents>>

\* The transport accepts the pending write (in either mode).
SettleOk ==
    /\ UNCHANGED appVars
    /\ wpc \in {"awaitNoResp", "awaitResp"}
    /\ gattConnected
    /\ \E k \in Pending :
        /\ log' = Settle(log, k, "ok")
        /\ wpc' = "chunkDone"
        /\ UNCHANGED <<connVars, callVars, ppc, copy, chunk, wData, wChunkSize,
                       wDelayMs, wI, result, err, rejects, linkEvents>>

\* A live link rejects the write without response of at most MaxRejects chunks
\* of a job; a dropped link rejects every write.
MayReject == ~gattConnected \/ rejects < MaxRejects

\* writeValueWithoutResponse rejects: the catch block tries writeValue.
SettleFailNoResp ==
    /\ UNCHANGED appVars
    /\ wpc = "awaitNoResp"
    /\ MayReject
    /\ rejects' = IF gattConnected THEN rejects + 1 ELSE rejects
    /\ \E k \in Pending :
        IF writeCharacteristic
        THEN /\ log' = Append(Settle(log, k, "failed"), WriteEv(CurrentChunk, "resp"))
             /\ wpc' = AwaitWrite("resp")
             /\ UNCHANGED <<connVars, callVars, ppc, copy, chunk, wData, wChunkSize,
                            wDelayMs, wI, result, err, linkEvents>>
        ELSE Throw("Write failed at byte", FailureOffset, Settle(log, k, "failed"))

\* writeValue rejects too: throw new Error(`Write failed at byte ${i}: ...`).
SettleFailResp ==
    /\ UNCHANGED appVars
    /\ wpc = "awaitResp"
    /\ UNCHANGED rejects
    /\ \E k \in Pending :
        Throw("Write failed at byte", FailureOffset, Settle(log, k, "failed"))

\* A mutant of MoreChunks: a delay follows every chunk, the last one too.
MoreChunksAlways(i, chunkSize, len) == TRUE

\* i + chunkSize < data.length: a further chunk follows the one just written.
MoreChunks(i, chunkSize, len) == i + chunkSize < len

\* After a chunk: if (i + chunkSize < data.length && delayMs > 0) await the
\* timer; otherwise i += chunkSize.
ChunkDone ==
    /\ UNCHANGED appVars
    /\ wpc = "chunkDone"
    /\ IF MoreChunks(wI, wChunkSize, Len(wData)) /\ wDelayMs > 0
       THEN /\ log' = Append(log, DelayEv(wDelayMs))
            /\ wpc' = "delay"
            /\ wI' = wI
       ELSE /\ log' = log
            /\ wpc' = "loop"
            /\ wI' = wI + wChunkSize
    /\ UNCHANGED <<connVars, callVars, ppc, copy, chunk, wData, wChunkSize,
                   wDelayMs, result, err, rejects, linkEvents>>

\* The inter-chunk timer fires: i += chunkSize.
DelayDone ==
    /\ UNCHANGED appVars
    /\ wpc = "delay"
    /\ wpc' = "loop"
    /\ wI' = wI + wChunkSize
    /\ UNCHANGED <<connVars, callVars, ppc, copy, chunk, wData, wChunkSize,
                   wDelayMs, result, err, log, rejects, linkEvents>>

\* ------------------------------------------------------------ printer.js

rowBytes == CeilDiv(job.width, 8)

totalChunks == CeilDiv(job.height, ROWS_PER_CHUNK)

\* A mutant of PrinterData: each copy converts the bitmap the application
\* holds at that time.
PrinterDataCurrent == convertBitmapForPrinter(Bitmap(0, currentBitmap.length))

PrinterData == convertBitmapForPrinter(job.bitmap)

\* A mutant of SliceData: a slice starts one row late.
SliceDataLate(c) ==
    Slice(PrinterData, (c * ROWS_PER_CHUNK + 1) * rowBytes,
          Min(c * ROWS_PER_CHUNK + ROWS_PER_CHUNK, job.height) * rowBytes)

\* printerData.slice(startByte, endByte) of the loop's iteration c.
SliceData(c) ==
    Slice(PrinterData, (c * ROWS_PER_CHUNK) * rowBytes,
          Min(c * ROWS_PER_CHUNK + ROWS_PER_CHUNK, job.height) * rowBytes)

\* The callback printBitmap was given: printMultiple's wrapper reports
\* (i + 1, copies, progress), a direct caller's callback the fraction alone.
onProgress(num, den) ==
    IF job.op = "printMultiple"
    THEN ProgressEv(copy + 1, job.copies, num, den)
    ELSE ProgressEv(0, 0, num, den)

\* A mutant of WidthTooLarge: the width is never checked.
WidthNeverTooLarge(width) == FALSE

WidthTooLarge(width) == width > MAX_WIDTH

\* printBitmap's entry: the two checks, onProgress(0), write(init).
PbCheck ==
    /\ UNCHANGED appVars
    /\ ppc = "check"
    /\ UNCHANGED rejects
    /\ IF ~getConnectionStatus
       THEN Throw("Printer not connected", -1, log)
       ELSE IF WidthTooLarge(job.width)
       THEN Throw("Image width exceeds maximum", -1, log)
       ELSE /\ log' = Append(log, onProgress(0, 1))
            /\ BeginWrite("init", buildInitCommand, DefaultChunkSize, DefaultDelayMs)
            /\ UNCHANGED <<connVars, callVars, copy, chunk, result, err, linkEvents>>

\* write(init) returned: await sleep(50).
AfterInit ==
    /\ UNCHANGED appVars
    /\ ppc = "init" /\ wpc = "return"
    /\ log' = Append(log, SleepEv(SleepAfterInit))
    /\ ppc' = "sleep50"
    /\ wpc' = "none"
    /\ UNCHANGED <<connVars, callVars, copy, chunk, wData, wChunkSize, wDelayMs, wI,
                   result, err, rejects, linkEvents>>

\* The timer fires: write(buildRasterHeader(width, height)).
Sleep50Done ==
    /\ UNCHANGED appVars
    /\ ppc = "sleep50"
    /\ BeginWrite("header", buildRasterHeader(job.width, job.height),
                  DefaultChunkSize, DefaultDelayMs)
    /\ UNCHANGED <<connVars, callVars, copy, chunk, result, err, log, rejects,
                   linkEvents>>

\* write(header) returned: await sleep(20).
AfterHeader ==
    /\ UNCHANGED appVars
    /\ ppc = "header" /\ wpc = "return"
    /\ log' = Append(log, SleepEv(SleepAfterHeader))
    /\ ppc' = "sleep20"
    /\ wpc' = "none"
    /\ UNCHANGED <<connVars, callVars, copy, chunk, wData, wChunkSize, wDelayMs, wI,
                   result, err, rejects, linkEvents>>

\* The timer fires: the slice loop starts at chunk = 0.
Sleep20Done ==
    /\ UNCHANGED appVars
    /\ ppc = "sleep20"
    /\ ppc' = "sliceLoop"
    /\ chunk' = 0
    /\ UNCHANGED <<connVars, callVars, copy, writeVars, result, err, log, rejects,
                   linkEvents>>

\* The slice loop's test: write the next slice (100 bytes per chunk,
\* CHUNK_DELAY between chunks), or leave the loop and await sleep(100).
SliceLoop ==
    /\ UNCHANGED appVars
    /\ ppc = "sliceLoop"
    /\ IF chunk < totalChunks
       THEN /\ BeginWrite("slice", SliceData(chunk), DefaultChunkSize, CHUNK_DELAY)
            /\ log' = log
       ELSE /\ log' = Append(log, SleepEv(SleepBeforeFeed))
            /\ ppc' = "sleep100"
            /\ UNCHANGED writeVars
    /\ UNCHANGED <<connVars, callVars, copy, chunk, result, err, rejects, linkEvents>>

\* write(slice) returned: onProgress((chunk + 1) / totalChunks * 0.9), chunk++.
AfterSlice ==
    /\ UNCHANGED appVars
    /\ ppc = "slice" /\ wpc = "return"
    /\ log' = Append(log, onProgress((chunk + 1) * 9, totalChunks * 10))
    /\ chunk' = chunk + 1
    /\ ppc' = "sliceLoop"
    /\ wpc' = "none"
    /\ UNCHANGED <<connVars, callVars, copy, wData, wChunkSize, wDelayMs, wI,
                   result, err, rejects, linkEvents>>

\* The timer fires: write(buildFeedCommand(mmToDots(DEFAULT_FEED_MM))).
Sleep100Done ==
    /\ UNCHANGED appVars
    /\ ppc = "sleep100"
    /\ BeginWrite("feed", buildFeedCommand(mmToDots(DEFAULT_FEED_MM * MmScale)),
                  DefaultChunkSize, DefaultDelayMs)
    /\ UNCHANGED <<connVars, callVars, copy, chunk, result, err, log, rejects,
                   linkEvents>>

\* A mutant of MoreCopies: a pause follows every copy, the last one too.
MoreCopiesAlways(i, copies) == i < copies

\* if (i < copies - 1) await sleep(500)
MoreCopies(i, copies) == i < copies - 1

\* write(feed) returned: onProgress(1) and printBitmap resolves.  Its caller is
\* the application, or printMultiple, which pauses before a further copy.
AfterFeed ==
    /\ UNCHANGED appVars
    /\ ppc = "feed" /\ wpc = "return"
    /\ IF job.op = "printMultiple" /\ MoreCopies(copy, job.copies)
       THEN /\ log' = Append(Append(log, onProgress(1, 1)), SleepEv(SleepBetweenCopies))
            /\ ppc' = "copyPause"
            /\ wpc' = "none"
            /\ UNCHANGED <<connVars, callVars, copy, chunk, wData, wChunkSize,
                           wDelayMs, wI, result, err, rejects, linkEvents>>
       ELSE Resolve(Append(log, onProgress(1, 1)))

\* The inter-copy timer fires: i++ and printBitmap is called again.
CopyPauseDone ==
    /\ UNCHANGED appVars
    /\ ppc = "copyPause"
    /\ copy' = copy + 1
    /\ IF copy + 1 < job.copies
       THEN /\ ppc' = "check"
            /\ result' = result
       ELSE /\ ppc' = "idle"
            /\ result' = "resolved"
    /\ UNCHANGED <<connVars, callVars, chunk, writeVars, err, log, rejects,
                   linkEvents>>

\* feedPaper's entry: the connection check, then write(feed command).
FeedCheck ==
    /\ UNCHANGED appVars
    /\ ppc = "feedCheck"
    /\ UNCHANGED rejects
    /\ IF ~getConnectionStatus
       THEN Throw("Printer not connected", -1, log)
       ELSE /\ BeginWrite("feedOnly", buildFeedCommand(mmToDots(job.mm)),
                          DefaultChunkSize, DefaultDelayMs)
            /\ UNCHANGED <<connVars, callVars, copy, chunk, result, err, log,
                           linkEvents>>

\* feedPaper's write returned.
AfterFeedOnly ==
    /\ UNCHANGED appVars
    /\ ppc = "feedOnly" /\ wpc = "return"
    /\ Resolve(log)

\* A caller invokes bluetooth.write directly.
DirectCall ==
    /\ UNCHANGED appVars
    /\ ppc = "directCall"
    /\ BeginWrite("direct", job.data, job.chunkSize, job.delayMs)
    /\ UNCHANGED <<connVars, callVars, copy, chunk, result, err, log, rejects,
                   linkEvents>>

AfterDirect ==
    /\ UNCHANGED appVars
    /\ ppc = "direct" /\ wpc = "return"
    /\ Resolve(log)

\* The caller has taken the settled promise: the record of the job is dropped.
TakeResult ==
    /\ ppc = "idle"
    /\ result \in {"resolved", "rejected"}
    /\ job' = NoJob
    /\ connAtCall' = FALSE
    /\ copy' = 0
    /\ chunk' = 0
    /\ wData' = <<>>
    /\ wChunkSize' = 0
    /\ wDelayMs' = 0
    /\ wI' = 0
    /\ result' = "none"
    /\ err' = NoErr
    /\ log' = <<>>
    /\ rejects' = 0
    /\ linkEvents' = 0
    /\ UNCHANGED <<connVars, ppc, wpc>>

Forget ==
    /\ UNCHANGED appVars
    /\ TakeResult

\* --------------------------------------------------- utils.js: label size

\* A mutant of mmToPixels: Math.floor instead of Math.round.
mmToPixelsFloor(mmU) == (DPMM * mmU) \div MmScale

\* Math.round(mm * DPMM), mm in units of 1/MmScale mm.
mmToPixels(mmU) == (2 * DPMM * mmU + MmScale) \div (2 * MmScale)

Invalid(error) == [valid |-> FALSE, error |-> error, widthPx |-> 0, heightPx |-> 0]

\* A mutant of validateLabelSize: the height is checked before the width.
validateHeightFirst(widthMm, heightMm) ==
    IF heightMm <= 0 THEN Invalid("Height must be greater than 0")
    ELSE IF widthMm < MIN_WIDTH_MM * MmScale THEN Invalid("Width must be at least")
    ELSE IF widthMm > MAX_WIDTH_MM * MmScale THEN Invalid("Width cannot exceed")
    ELSE [valid |-> TRUE, error |-> "", widthPx |-> mmToPixels(widthMm),
          heightPx |-> mmToPixels(heightMm)]

validateLabelSize(widthMm, heightMm) ==
    IF widthMm < MIN_WIDTH_MM * MmScale THEN Invalid("Width must be at least")
    ELSE IF widthMm > MAX_WIDTH_MM * MmScale THEN Invalid("Width cannot exceed")
    ELSE IF heightMm <= 0 THEN Invalid("Height must be greater than 0")
    ELSE IF mmToPixels(widthMm) > MAX_WIDTH_PX
    THEN Invalid("Width exceeds maximum printable width")
    ELSE [valid |-> TRUE, error |-> "", widthPx |-> mmToPixels(widthMm),
          heightPx |-> mmToPixels(heightMm)]

\* What the user types into the width and height fields, in units of
\* 1/MmScale mm; 0 also stands for a text parseFloat does not read.
WidthInputs ==
    {0, 10 * MmScale, 19 * MmScale, 20 * MmScale - 1, 20 * MmScale,
     20 * MmScale + 1, 30 * MmScale, 40 * MmScale, 48 * MmScale - 1,
     48 * MmScale, 48 * MmScale + 1, 49 * MmScale, 50 * MmScale}

HeightInputs ==
    {-MmScale, 0, 1, MmScale, 15 * MmScale, 30 * MmScale, 8192 * MmScale - 2,
     8192 * MmScale - 1, 8192 * MmScale, 10000 * MmScale}

\* ---------------------------------------------------------------- strings

\* A string is the sequence of its characters, each a one-character string.

UpperCaseLetters ==
    <<"A", "B", "C", "D", "E", "F", "G", "H", "I", "J", "K", "L", "M",
      "N", "O", "P", "Q", "R", "S", "T", "U", "V", "W", "X", "Y", "Z">>

LowerCaseLetters ==
    <<"a", "b", "c", "d", "e", "f", "g", "h", "i", "j", "k", "l", "m",
      "n", "o", "p", "q", "r", "s", "t", "u", "v", "w", "x", "y", "z">>

DecimalDigits == <<"0", "1", "2", "3", "4", "5", "6", "7", "8", "9">>

\* The position of character c in the sequence s, 0 if it is not there.
IndexOf(s, c) ==
    IF \E i \in 1..Len(s) : s[i] = c THEN CHOOSE i \in 1..Len(s) : s[i] = c ELSE 0

\* [A-Z] under the regular expression flag i.
IsLetter(c) == IndexOf(UpperCaseLetters, c) > 0 \/ IndexOf(LowerCaseLetters, c) > 0

\* \d
IsDigit(c) == IndexOf(DecimalDigits, c) > 0

\* String.prototype.toUpperCase
toUpperCase(s) ==
    [i \in 1..Len(s) |->
        IF IndexOf(LowerCaseLetters, s[i]) > 0
        THEN UpperCaseLetters[IndexOf(LowerCaseLetters, s[i])]
        ELSE s[i]]

\* The white space String.prototype.trim, parseInt and \s know, as far as the
\* modelled texts have it.
IsWhiteSpace(c) == c \in {" ", "\t", "\n", "\r"}

RECURSIVE trimStart(_)
trimStart(s) ==
    IF s # <<>> /\ IsWhiteSpace(Head(s)) THEN trimStart(Tail(s)) ELSE s

RECURSIVE trimEnd(_)
trimEnd(s) ==
    IF s # <<>> /\ IsWhiteSpace(s[Len(s)]) THEN trimEnd(SubSeq(s, 1, Len(s) - 1))
    ELSE s

\* A mutant of trim: the string is returned as it is.
trimNothing(s) == s

\* String.prototype.trim
trim(s) == trimEnd(trimStart(s))

\* ------------------------------------------- js/zpl-renderer.js: parseZPL

\* [\^~]
IsDesignator(c) == c = "^" \/ c = "~"

\* The start of the leftmost match of /[\^~]([A-Z]{1,2})([^^\~]*)/gi at or after
\* regex.lastIndex (positions count from 1, lastIndex from 0): a designator
\* followed by a letter.  0 stands for no match.
MatchStart(text, lastIndex) ==
    LET starts == {p \in (lastIndex + 1)..(Len(text) - 1) :
                      IsDesignator(text[p]) /\ IsLetter(text[p + 1])}
    IN  IF starts = {} THEN 0 ELSE CHOOSE p \in starts : \A q \in starts : p <= q

\* ([A-Z]{1,2}) is greedy: two letters when the second character is a letter.
NameLength(text, p) ==
    IF p + 2 <= Len(text) /\ IsLetter(text[p + 2]) THEN 2 ELSE 1

RECURSIVE ParamsEnd(_, _)
\* ([^^\~]*) from position i + 1 on: the position of its last character.
ParamsEnd(text, i) ==
    IF i < Len(text) /\ ~IsDesignator(text[i + 1]) THEN ParamsEnd(text, i + 1) ELSE i

RECURSIVE ExecLoop(_, _)
\* while ((match = regex.exec(zpl)) !== null) commands.push({...})
ExecLoop(text, lastIndex) ==
    LET p == MatchStart(text, lastIndex)
    IN  IF p = 0 THEN <<>>
        ELSE LET n == NameLength(text, p)
                 e == ParamsEnd(text, p + n)
             IN  <<[command |-> toUpperCase(SubSeq(text, p + 1, p + n)),
                    params |-> trim(SubSeq(text, p + n + 1, e))]>>
                 \o ExecLoop(text, e)

parseZPL(text) == ExecLoop(text, 0)

\* The longest text of a direct parseZPL call over ParseAlphabet.
MaxText == 5

\* Both designators, an upper-case and a lower-case letter, a digit, a blank.
ParseAlphabet == {"^", "~", "F", "d", "1", " "}

RECURSIVE TextsOver(_, _)
\* The texts of at most n characters over the alphabet A.
TextsOver(A, n) ==
    IF n = 0 THEN {<<>>}
    ELSE LET shorter == TextsOver(A, n - 1)
         IN  shorter \cup {Append(t, c) : t \in {u \in shorter : Len(u) = n - 1}, c \in A}

\* "^FO10,20^FDHi^FS"
ExampleText ==
    <<"^", "F", "O", "1", "0", ",", "2", "0", "^", "F", "D", "H", "i", "^", "F", "S">>

NoParseCall == [called |-> FALSE, zpl |-> <<>>, commands |-> <<>>]

\* The texts of the modelled parseZPL calls.
ParseTexts == TextsOver(ParseAlphabet, MaxText) \cup {ExampleText}

\* A caller invokes parseZPL on the text it holds.
CallParseZPL ==
    /\ ~parseCall.called
    /\ parseCall' = [parseCall EXCEPT !.called = TRUE, !.commands = parseZPL(parseCall.zpl)]
    /\ UNCHANGED <<printVars, sizeVars, previewVars, renderVars, decodeCall, monoCall>>

\* ------------------------------------------------------------ numbers

\* The number NaN.  No text of the model parses to this integer.
NaN == -1000000

\* The value undefined of a field that holds a number once it is assigned.
Undefined == -1000001

HexDigits ==
    <<"0", "1", "2", "3", "4", "5", "6", "7", "8", "9", "A", "B", "C", "D", "E", "F">>

\* The value of a digit in the given radix (10 or 16), NaN if it is none.
DigitValue(c, radix) ==
    IF IndexOf(DecimalDigits, c) > 0 THEN IndexOf(DecimalDigits, c) - 1
    ELSE IF radix = 16 /\ IndexOf(HexDigits, toUpperCase(<<c>>)[1]) > 0
    THEN IndexOf(HexDigits, toUpperCase(<<c>>)[1]) - 1
    ELSE NaN

\* /[0-9A-Fa-f]/.test(char)
IsHexDigit(c) == DigitValue(c, 16) # NaN

RECURSIVE DigitsValue(_, _, _)
\* The value of the longest prefix of s made of digits of the radix, read
\* after the value acc; NaN if acc is NaN and s starts with no digit.
DigitsValue(s, radix, acc) ==
    IF s = <<>> \/ DigitValue(Head(s), radix) = NaN THEN acc
    ELSE DigitsValue(Tail(s), radix,
                     (IF acc = NaN THEN 0 ELSE acc * radix) + DigitValue(Head(s), radix))

\* The text after a leading "0x" or "0X", which parseInt strips when the radix
\* is 16 or not given.
AfterHexPrefix(s) ==
    IF Len(s) >= 2 /\ s[1] = "0" /\ s[2] \in {"x", "X"} THEN SubSeq(s, 3, Len(s)) ELSE s

HasHexPrefix(s) == AfterHexPrefix(s) # s

\* parseInt(string, radix): white space, a sign, a hex prefix, then digits.
\* radix 0 stands for the call with one argument.
parseInt(string, radix) ==
    LET t       == trimStart(string)
        signed  == t # <<>> /\ t[1] \in {"+", "-"}
        u       == IF signed THEN Tail(t) ELSE t
        hex     == radix = 16 \/ (radix = 0 /\ HasHexPrefix(u))
        digits  == IF radix \in {0, 16} THEN AfterHexPrefix(u) ELSE u
        value   == DigitsValue(digits, IF hex THEN 16 ELSE 10, NaN)
    IN  IF value = NaN THEN NaN
        ELSE IF signed /\ t[1] = "-" THEN 0 - value ELSE value

\* a || b for numbers: b when a is 0 or NaN.
OrElse(a, b) == IF a = NaN \/ a = 0 THEN b ELSE a

\* data[i] of a string (i from 0): the character, or undefined (the empty
\* string here, which like undefined is falsy and compares false with letters).
CharAt(s, i) == IF i >= 0 /\ i < Len(s) THEN s[i + 1] ELSE ""

\* String.prototype.substr(start, length) for 0 <= start.
substr(s, start, length) == Slice(s, start, start + length)

\* ------------------------------ js/zpl-renderer.js: decodeCompressedHex

\* char >= 'G' && char <= 'Y'
IsShortRepeat(c) ==
    IndexOf(UpperCaseLetters, c) >= 7 /\ IndexOf(UpperCaseLetters, c) <= 25

\* char >= 'g' && char <= 'z'
IsLongRepeat(c) ==
    IndexOf(LowerCaseLetters, c) >= 7 /\ IndexOf(LowerCaseLetters, c) <= 26

\* A mutant of RepeatCount: the letters count from zero.
RepeatCountFromZero(c) ==
    IF IsShortRepeat(c) THEN IndexOf(UpperCaseLetters, c) - 7
    ELSE (IndexOf(LowerCaseLetters, c) - 7) * 20

\* char.charCodeAt(0) - 'F'.charCodeAt(0), and
\* (char.charCodeAt(0) - 'f'.charCodeAt(0)) * 20.
RepeatCount(c) ==
    IF IsShortRepeat(c) THEN IndexOf(UpperCaseLetters, c) - 6
    ELSE (IndexOf(LowerCaseLetters, c) - 6) * 20

\* (nibble << 4) | nibble, which is 0 when nibble is NaN.
NibbleByte(nibble) == IF nibble = NaN THEN 0 ELSE 16 * nibble + nibble

\* bytes[byteIdx++] = byte, count times, while byteIdx < totalBytes: bytes from
\* index from (counted from 0) on.
FillRun(bytes, from, count, byte) ==
    [k \in 1..Len(bytes) |->
        IF k > from /\ k <= from + count THEN byte ELSE bytes[k]]

\* A mutant of RunLimit: the run is written whole.
RunUnlimited(count, room) == count

\* The passes of for (let j = 0; j < count && byteIdx < totalBytes; j++) when
\* room bytes are left before totalBytes.
RunLimit(count, room) == Min(count, room)

\* A mutant of Skip: the character after the skipped one goes with it.
SkipPair(i) == i + 2

\* i++
Skip(i) == i + 1

NoDecodeCall ==
    [pc |-> "none", data |-> <<>>, totalBytes |-> 0, bytes |-> <<>>,
     byteIdx |-> 0, i |-> 0]

\* The entry of decodeCompressedHex(data, totalBytes): new
\* Uint8Array(totalBytes), byteIdx = 0, i = 0.
DecodeEntry(data, totalBytes) ==
    [pc |-> "loop", data |-> data, totalBytes |-> totalBytes,
     bytes |-> [k \in 1..totalBytes |-> 0], byteIdx |-> 0, i |-> 0]

\* One test of while (i < data.length && byteIdx < totalBytes) and, when it
\* holds, one pass through the loop's body; otherwise return bytes.
DecodeBody(d) ==
    LET char  == CharAt(d.data, d.i)
        next  == CharAt(d.data, d.i + 1)
        run   == RunLimit(RepeatCount(char), d.totalBytes - d.byteIdx)
        byte  == NibbleByte(parseInt(<<IF next = "" THEN "0" ELSE next>>, 16))
    IN  IF ~(d.i < Len(d.data) /\ d.byteIdx < d.totalBytes)
        THEN [d EXCEPT !.pc = "done"]
        ELSE IF IsShortRepeat(char) \/ IsLongRepeat(char)
        THEN [d EXCEPT !.bytes = FillRun(d.bytes, d.byteIdx, run, byte),
                       !.byteIdx = d.byteIdx + run,
                       !.i = d.i + 2]
        ELSE IF IsHexDigit(char)
        THEN [d EXCEPT !.bytes = FillRun(d.bytes, d.byteIdx, 1,
                                   ToUint8(OrElse(parseInt(substr(d.data, d.i, 2), 16), 0))),
                       !.byteIdx = d.byteIdx + 1,
                       !.i = d.i + 2]
        ELSE [d EXCEPT !.i = Skip(d.i)]

RECURSIVE DecodeRun(_)
DecodeRun(d) == IF d.pc = "done" THEN d ELSE DecodeRun(DecodeBody(d))

\* The bytes decodeCompressedHex(data, totalBytes) returns.
decodeCompressedHex(data, totalBytes) == DecodeRun(DecodeEntry(data, totalBytes)).bytes

\* The longest data of a direct decodeCompressedHex call over DecodeAlphabet.
MaxEncoded == 3

\* The first and last letter of both repeat ranges and one inside, a letter
\* between the ranges, hex digits of all three kinds, and a blank.
DecodeAlphabet == {"G", "H", "Y", "g", "z", "Z", "0", "5", "A", "f", " "}

\* The declared totals: nothing, one byte, a short run cut or not, a long run
\* cut or not.
DecodeTotals == {0, 1, 2, 19, 25, 400}

\* Tokens of the three kinds, and what stands before, between and after two
\* of them in the longer data: nothing, or characters the decoder skips.
SampleTokens == {<<"G", "5">>, <<"Y", "0">>, <<"5", "A">>, <<"g", "f">>}

SampleGaps == {<<>>, <<" ">>, <<"Z">>}

\* Two tokens with gaps around them.
DecodeSamples ==
    {g1 \o t1 \o g2 \o t2 \o g3 :
        t1 \in SampleTokens, t2 \in SampleTokens,
        g1 \in SampleGaps, g2 \in SampleGaps, g3 \in SampleGaps}

\* A caller invokes decodeCompressedHex on the data and total it holds.
CallDecodeCompressedHex ==
    /\ decodeCall.pc = "call"
    /\ decodeCall' = DecodeEntry(decodeCall.data, decodeCall.totalBytes)
    /\ UNCHANGED <<printVars, sizeVars, previewVars, renderVars, parseCall, monoCall>>

\* The loop of the call in progress takes one step.
DecodeStep ==
    /\ decodeCall.pc = "loop"
    /\ decodeCall' = DecodeBody(decodeCall)
    /\ UNCHANGED <<printVars, sizeVars, previewVars, renderVars, parseCall, monoCall>>

\* ------------------------------------- js/zpl-renderer.js: the interpreter

RECURSIVE split(_, _)
\* String.prototype.split(separator) for a one-character separator.
split(s, sep) ==
    IF IndexOf(s, sep) = 0 THEN <<s>>
    ELSE <<SubSeq(s, 1, IndexOf(s, sep) - 1)>>
         \o split(SubSeq(s, IndexOf(s, sep) + 1, Len(s)), sep)

\* parts[k] (k from 0); a missing part is undefined, which every use treats
\* like the empty string: it is falsy and parseInt reads NaN from it.
Part(parts, k) == IF k < Len(parts) THEN parts[k + 1] ELSE <<>>

RECURSIVE replaceAll(_, _, _)
\* String.prototype.replace(/from/g, to) for a literal pattern.
replaceAll(s, from, to) ==
    IF Len(s) < Len(from) THEN s
    ELSE IF SubSeq(s, 1, Len(from)) = from
    THEN to \o replaceAll(SubSeq(s, Len(from) + 1, Len(s)), from, to)
    ELSE <<Head(s)>> \o replaceAll(Tail(s), from, to)

RECURSIVE DigitRun(_)
\* The length of the longest prefix of s made of decimal digits.
DigitRun(s) == IF s # <<>> /\ IsDigit(Head(s)) THEN 1 + DigitRun(Tail(s)) ELSE 0

RECURSIVE Pow10(_)
Pow10(n) == IF n = 0 THEN 1 ELSE 10 * Pow10(n - 1)

\* parseFloat(string) for decimal notation without exponent: the number as
\* <<numerator, denominator>>, <<NaN, 1>> if the text starts with no number.
parseFloat(string) ==
    LET t      == trimStart(string)
        signed == t # <<>> /\ t[1] \in {"+", "-"}
        u      == IF signed THEN Tail(t) ELSE t
        n      == DigitRun(u)
        rest   == SubSeq(u, n + 1, Len(u))
        m      == IF rest # <<>> /\ rest[1] = "." THEN DigitRun(Tail(rest)) ELSE 0
        whole  == IF n = 0 THEN 0 ELSE DigitsValue(SubSeq(u, 1, n), 10, NaN)
        frac   == IF m = 0 THEN 0 ELSE DigitsValue(SubSeq(rest, 2, m + 1), 10, NaN)
        num    == whole * Pow10(m) + frac
    IN  IF n = 0 /\ m = 0 THEN <<NaN, 1>>
        ELSE <<IF signed /\ t[1] = "-" THEN 0 - num ELSE num, Pow10(m)>>

\* a + b of two numbers.
Plus(a, b) == IF a = NaN \/ b = NaN THEN NaN ELSE a + b

\* this.pendingBarcode before any barcode command has run.
NoBarcode ==
    [type |-> "undefined", orientation |-> <<>>, height |-> 0, printText |-> FALSE,
     textAbove |-> FALSE, model |-> 0, magnification |-> 0, x |-> 0, y |-> 0]

\* A mutant of reset: the fields reset() leaves alone are cleared as well.
resetAll(r) ==
    [x |-> 0, y |-> 0, font |-> <<"0">>, fontHeight |-> 30, fontWidth |-> 30,
     rotation |-> <<"N">>, fieldReversePrint |-> FALSE, barcodeHeight |-> 100,
     barcodeModuleWidth |-> 2, barcodeWideToNarrow |-> <<3, 1>>,
     labelWidth |-> 320, labelHeight |-> 240,
     blockWidth |-> Undefined, pendingBarcode |-> NoBarcode,
     labelHomeX |-> Undefined, labelHomeY |-> Undefined]

\* reset(): twelve fields are assigned; blockWidth, pendingBarcode, labelHomeX
\* and labelHomeY are not.
reset(r) ==
    [r EXCEPT !.x = 0, !.y = 0, !.font = <<"0">>, !.fontHeight = 30,
              !.fontWidth = 30, !.rotation = <<"N">>, !.fieldReversePrint = FALSE,
              !.barcodeHeight = 100, !.barcodeModuleWidth = 2,
              !.barcodeWideToNarrow = <<3, 1>>, !.labelWidth = 320,
              !.labelHeight = 240]

\* new ZPLRenderer(): the constructor calls reset() on the new object, whose
\* other fields do not exist yet.
NewRenderer == resetAll(<<>>)

\* A drawing call on the canvas context.  Coordinates are kept doubled (x2 =
\* 2x), since strokeRect is given half pixels; measured tells that the width
\* is w plus the measured width of the text.
NoDraw ==
    [op |-> "", x2 |-> 0, y2 |-> 0, w |-> 0, h |-> 0, lineWidth |-> 0,
     color |-> "", text |-> <<>>, size |-> 0, angle |-> 0, radius2 |-> 0,
     measured |-> FALSE, bytes |-> <<>>, rowBytes |-> 0]

\* What executing one record did: the renderer's fields after it, the drawing
\* calls it issued, and whether it threw.
Outcome(r, draws, threw) == [r |-> r, draws |-> draws, threw |-> threw]

handleFieldOrigin(r, params) ==
    LET parts == split(params, ",")
    IN  [r EXCEPT !.x = OrElse(parseInt(Part(parts, 0), 0), 0),
                  !.y = OrElse(parseInt(Part(parts, 1), 0), 0),
                  !.fieldReversePrint = FALSE]

\* ([A-Z0-9])? under the flag i, at the start of s: the character taken.
FontId(s) ==
    IF s # <<>> /\ (IsLetter(s[1]) \/ IsDigit(s[1])) THEN <<s[1]>> ELSE <<>>

\* ([NRIB])? under the flag i, at the start of s.
FontRotation(s) ==
    IF s # <<>> /\ toUpperCase(<<s[1]>>)[1] \in {"N", "R", "I", "B"}
    THEN <<s[1]>> ELSE <<>>

\* (?:,(\d+))? at the start of s: the digits taken and what is left of s.
CommaDigits(s) ==
    LET n == IF s # <<>> /\ s[1] = "," THEN DigitRun(Tail(s)) ELSE 0
    IN  IF n = 0 THEN <<<<>>, s>>
        ELSE <<SubSeq(s, 2, n + 1), SubSeq(s, n + 2, Len(s))>>

\* The match once the first two groups and the third with its rest are known.
FontMatchFrom3(g1, g2, m3) == <<g1, g2, m3[1], CommaDigits(m3[2])[1]>>

\* The match once the first two groups are known; s1 is what follows the first.
FontMatchFrom2(g1, g2, s1) ==
    FontMatchFrom3(g1, g2, CommaDigits(SubSeq(s1, Len(g2) + 1, Len(s1))))

\* The match once the first group is known.
FontMatchFrom1(g1, params) ==
    FontMatchFrom2(g1, FontRotation(SubSeq(params, Len(g1) + 1, Len(params))),
                   SubSeq(params, Len(g1) + 1, Len(params)))

\* The groups of /^([A-Z0-9])?([NRIB])?(?:,(\d+))?(?:,(\d+))?/i on params;
\* <<>> stands for a group that did not take part.  Every group is optional
\* and greedy, so each takes what it can where the one before it stopped.
FontMatch(params) == FontMatchFrom1(FontId(params), params)

handleFont(r, params) ==
    LET Matched(match) ==
            LET height == IF match[3] # <<>> THEN parseInt(match[3], 0)
                          ELSE r.fontHeight
            IN  [r EXCEPT !.font = IF match[1] # <<>> THEN match[1] ELSE @,
                          !.rotation = IF match[2] # <<>> THEN toUpperCase(match[2])
                                       ELSE @,
                          !.fontHeight = height,
                          !.fontWidth = IF match[4] # <<>>
                                        THEN OrElse(parseInt(match[4], 0), height)
                                        ELSE @]
    IN  Matched(FontMatch(params))

handleChangeFont(r, params) ==
    LET parts == split(params, ",")
    IN  [r EXCEPT !.font = IF Part(parts, 0) # <<>> THEN Part(parts, 0) ELSE @,
                  !.fontHeight = IF Part(parts, 1) # <<>>
                                 THEN parseInt(Part(parts, 1), 0) ELSE @,
                  !.fontWidth = IF Part(parts, 2) # <<>>
                                THEN parseInt(Part(parts, 2), 0) ELSE @]

\* ROTATIONS[this.rotation] || 0
RotationAngle(rotation) ==
    IF rotation = <<"R">> THEN 90
    ELSE IF rotation = <<"I">> THEN 180
    ELSE IF rotation = <<"B">> THEN 270
    ELSE 0

\* A mutant of FieldDrawn: the flag outlives the field.
FieldDrawnKeeps(r) == r

\* this.fieldReversePrint = false, the last statement of handleFieldData.
FieldDrawn(r) == [r EXCEPT !.fieldReversePrint = FALSE]

handleFieldData(r, params) ==
    LET text == replaceAll(replaceAll(params, <<"\\", "&">>, <<"&">>),
                           <<"\\", "\\">>, <<"\\">>)
        box  == [NoDraw EXCEPT !.op = "fillRect", !.x2 = 2 * (r.x - 2),
                               !.y2 = 2 * (r.y - 2), !.w = 4,
                               !.h = Plus(r.fontHeight, 4), !.measured = TRUE,
                               !.text = text, !.size = r.fontHeight,
                               !.angle = RotationAngle(r.rotation),
                               !.color = "#000000"]
        word == [NoDraw EXCEPT !.op = "fillText", !.x2 = 2 * r.x, !.y2 = 2 * r.y,
                               !.text = text, !.size = r.fontHeight,
                               !.angle = RotationAngle(r.rotation),
                               !.color = IF r.fieldReversePrint THEN "#ffffff"
                                         ELSE "#000000"]
    IN  Outcome(FieldDrawn(r),
                IF r.fieldReversePrint THEN <<box, word>> ELSE <<word>>, FALSE)

handleFieldBlock(r, params) ==
    [r EXCEPT !.blockWidth = OrElse(parseInt(Part(split(params, ","), 0), 0),
                                    r.labelWidth)]

\* thickness >= Math.min(width, height) / 2
FillsBox(width, height, thickness) == 2 * thickness >= Min(width, height)

\* ctx.lineWidth = thickness after ctx.save(): a value that is not positive
\* is ignored, and the width stays the context's 1.
LineWidth(thickness) == IF thickness > 0 THEN thickness ELSE 1

handleGraphicBox(r, params) ==
    LET parts     == split(params, ",")
        width     == OrElse(parseInt(Part(parts, 0), 0), 1)
        height    == OrElse(parseInt(Part(parts, 1), 0), 1)
        thickness == OrElse(parseInt(Part(parts, 2), 0), 1)
        color     == IF toUpperCase(IF Part(parts, 3) = <<>> THEN <<"B">>
                                    ELSE Part(parts, 3)) = <<"W">>
                     THEN "#ffffff" ELSE "#000000"
        rounding  == OrElse(parseInt(Part(parts, 4), 0), 0)
        shape     == [NoDraw EXCEPT !.x2 = 2 * r.x, !.y2 = 2 * r.y, !.w = width,
                                    !.h = height, !.lineWidth = LineWidth(thickness),
                                    !.color = color]
    IN  Outcome(r,
          IF rounding > 0
          THEN <<[shape EXCEPT !.op = IF FillsBox(width, height, thickness)
                                      THEN "fillPath" ELSE "strokePath",
                               !.radius2 = Min(2 * rounding, Min(width, height))]>>
          ELSE IF FillsBox(width, height, thickness)
          THEN <<[shape EXCEPT !.op = "fillRect"]>>
          ELSE <<[shape EXCEPT !.op = "strokeRect",
                               !.x2 = 2 * r.x + thickness,
                               !.y2 = 2 * r.y + thickness,
                               !.w = width - thickness,
                               !.h = height - thickness]>>,
          FALSE)

\* The groups of /^([ABH]),(\d+),(\d+),(\d+),(.+)/is on params: whether it
\* matches, and groups 1, 2, 4 and 5.
GraphicFieldMatch(params) ==
    LET parts  == split(params, ",")
        number == [k \in 2..4 |-> Part(parts, k - 1)]
        start  == Len(Part(parts, 0)) + Len(number[2]) + Len(number[3])
                  + Len(number[4]) + 5
        data   == SubSeq(params, start, Len(params))
    IN  [ok |-> /\ Len(parts) >= 5
                /\ Len(parts[1]) = 1
                /\ toUpperCase(parts[1])[1] \in {"A", "B", "H"}
                /\ \A k \in 2..4 : number[k] # <<>> /\ DigitRun(number[k]) = Len(number[k])
                /\ data # <<>>,
         format |-> toUpperCase(Part(parts, 0)),
         totalBytes |-> number[2],
         rowBytes |-> number[4],
         data |-> data]

\* A number stored into a Uint8Array element: NaN is stored as 0.
StoreUint8(v) == IF v = NaN THEN 0 ELSE ToUint8(v)

RECURSIVE dropWhiteSpace(_)
\* hex.replace(/\s/g, '')
dropWhiteSpace(s) ==
    IF s = <<>> THEN <<>>
    ELSE IF IsWhiteSpace(Head(s)) THEN dropWhiteSpace(Tail(s))
    ELSE <<Head(s)>> \o dropWhiteSpace(Tail(s))

hexToBytes(hex) ==
    LET clean == dropWhiteSpace(hex)
    IN  [k \in 1..(Len(clean) \div 2) |->
            StoreUint8(parseInt(substr(clean, (k - 1) * 2, 2), 16))]

\* c.charCodeAt(0) for the characters of the modelled texts.
charCodeAt(c) ==
    IF IndexOf(DecimalDigits, c) > 0 THEN 47 + IndexOf(DecimalDigits, c)
    ELSE IF IndexOf(UpperCaseLetters, c) > 0 THEN 64 + IndexOf(UpperCaseLetters, c)
    ELSE IF IndexOf(LowerCaseLetters, c) > 0 THEN 96 + IndexOf(LowerCaseLetters, c)
    ELSE IF c = " " THEN 32
    ELSE IF c = "," THEN 44
    ELSE IF c = "." THEN 46
    ELSE IF c = "-" THEN 45
    ELSE IF c = "&" THEN 38
    ELSE 92

\* ctx.createImageData(width, height) throws IndexSizeError when either is
\* zero; a height that is no finite number converts to zero.
CreateImageDataThrows(total, perRow) == perRow = 0 \/ total = 0

handleGraphicField(r, params) ==
    LET match  == GraphicFieldMatch(params)
        total  == parseInt(match.totalBytes, 0)
        perRow == parseInt(match.rowBytes, 0)
        bytes  == IF match.format = <<"A">> THEN hexToBytes(match.data)
                  ELSE IF match.format = <<"B">>
                  THEN [k \in 1..Len(match.data) |->
                          ToUint8(charCodeAt(match.data[k]))]
                  ELSE decodeCompressedHex(match.data, total)
    IN  IF ~match.ok THEN Outcome(r, <<>>, FALSE)
        ELSE IF CreateImageDataThrows(total, perRow) THEN Outcome(r, <<>>, TRUE)
        ELSE Outcome(r, <<[NoDraw EXCEPT !.op = "putImageData", !.x2 = 2 * r.x,
                                         !.y2 = 2 * r.y, !.w = perRow * 8,
                                         !.h = CeilDiv(total, perRow),
                                         !.bytes = bytes, !.rowBytes = perRow]>>,
                     FALSE)

handleBarcodeDefaults(r, params) ==
    LET parts == split(params, ",")
    IN  [r EXCEPT !.barcodeModuleWidth = IF Part(parts, 0) # <<>>
                                         THEN parseInt(Part(parts, 0), 0) ELSE @,
                  !.barcodeWideToNarrow = IF Part(parts, 1) # <<>>
                                          THEN parseFloat(Part(parts, 1)) ELSE @,
                  !.barcodeHeight = IF Part(parts, 2) # <<>>
                                    THEN parseInt(Part(parts, 2), 0) ELSE @]

\* (part || fallback).toUpperCase() === 'Y'
IsYes(part, fallback) == toUpperCase(IF part = <<>> THEN fallback ELSE part) = <<"Y">>

handleBarcode128(r, params) ==
    LET parts == split(params, ",")
    IN  [r EXCEPT !.pendingBarcode =
          [NoBarcode EXCEPT
             !.type = "128",
             !.orientation = IF Part(parts, 0) = <<>> THEN <<"N">> ELSE Part(parts, 0),
             !.height = OrElse(parseInt(Part(parts, 1), 0), r.barcodeHeight),
             !.printText = IsYes(Part(parts, 2), <<"Y">>),
             !.textAbove = IsYes(Part(parts, 3), <<"N">>),
             !.x = r.x, !.y = r.y]]

\* A mutant of handleQRCode: the record also takes the cursor home.
handleQRCodeHome(r, params) ==
    [r EXCEPT !.x = 0, !.y = 0,
              !.pendingBarcode = [NoBarcode EXCEPT !.type = "QR", !.orientation = <<"N">>]]

handleQRCode(r, params) ==
    LET parts == split(params, ",")
    IN  [r EXCEPT !.pendingBarcode =
          [NoBarcode EXCEPT
             !.type = "QR",
             !.orientation = IF Part(parts, 0) = <<>> THEN <<"N">> ELSE Part(parts, 0),
             !.model = OrElse(parseInt(Part(parts, 1), 0), 2),
             !.magnification = OrElse(parseInt(Part(parts, 2), 0), 3),
             !.x = r.x, !.y = r.y]]

handleLabelHome(r, params) ==
    LET parts == split(params, ",")
    IN  [r EXCEPT !.labelHomeX = OrElse(parseInt(Part(parts, 0), 0), 0),
                  !.labelHomeY = OrElse(parseInt(Part(parts, 1), 0), 0)]

handleFieldOrientation(r, params) ==
    IF Len(params) > 0 THEN [r EXCEPT !.rotation = toUpperCase(<<params[1]>>)] ELSE r

\* A command name as the sequence of its characters.
Name(a, b) == IF b = "" THEN <<a>> ELSE <<a, b>>

\* The command names executeCommand has a case for.
SupportedCommands ==
    {Name("X", "A"), Name("X", "Z"), Name("F", "O"), Name("F", "D"), Name("F", "S"),
     Name("A", ""), Name("A", "0"), Name("C", "F"), Name("F", "B"), Name("G", "B"),
     Name("G", "F"), Name("B", "Y"), Name("B", "C"), Name("B", "Q"), Name("F", "R"),
     Name("L", "H"), Name("L", "L"), Name("P", "W"), Name("F", "W")}

\* A mutant of UnknownCommand: an unknown command resets the cursor.
UnknownCommandHome(r) == [r EXCEPT !.x = 0, !.y = 0]

\* The default case of executeCommand: console.log, nothing else.
UnknownCommand(r) == r

\* A mutant of UnknownOutcome: an unknown command throws.
UnknownOutcomeThrows(r) == Outcome(r, <<>>, TRUE)

\* What the default case does: it changes nothing, draws nothing and returns.
UnknownOutcome(r) == Outcome(UnknownCommand(r), <<>>, FALSE)

\* executeCommand(ctx, cmd): the switch on cmd.command.
executeCommand(r, cmd) ==
    LET c == cmd.command
        p == cmd.params
    IN  IF c \in {Name("X", "A"), Name("X", "Z"), Name("F", "S"), Name("L", "L"),
                  Name("P", "W")}
        THEN Outcome(r, <<>>, FALSE)
        ELSE IF c = Name("F", "O") THEN Outcome(handleFieldOrigin(r, p), <<>>, FALSE)
        ELSE IF c = Name("F", "D") THEN handleFieldData(r, p)
        ELSE IF c \in {Name("A", ""), Name("A", "0")}
        THEN Outcome(handleFont(r, p), <<>>, FALSE)
        ELSE IF c = Name("C", "F") THEN Outcome(handleChangeFont(r, p), <<>>, FALSE)
        ELSE IF c = Name("F", "B") THEN Outcome(handleFieldBlock(r, p), <<>>, FALSE)
        ELSE IF c = Name("G", "B") THEN handleGraphicBox(r, p)
        ELSE IF c = Name("G", "F") THEN handleGraphicField(r, p)
        ELSE IF c = Name("B", "Y") THEN Outcome(handleBarcodeDefaults(r, p), <<>>, FALSE)
        ELSE IF c = Name("B", "C") THEN Outcome(handleBarcode128(r, p), <<>>, FALSE)
        ELSE IF c = Name("B", "Q") THEN Outcome(handleQRCode(r, p), <<>>, FALSE)
        ELSE IF c = Name("F", "R")
        THEN Outcome([r EXCEPT !.fieldReversePrint = TRUE], <<>>, FALSE)
        ELSE IF c = Name("L", "H") THEN Outcome(handleLabelHome(r, p), <<>>, FALSE)
        ELSE IF c = Name("F", "W")
        THEN Outcome(handleFieldOrientation(r, p), <<>>, FALSE)
        ELSE UnknownOutcome(r)

\* ------------------------------------------ js/zpl-renderer.js: render

\* The most records of one modelled render call, and the most render calls.
MaxRecords == 2
MaxRenders == 2

\* The canvas size of the modelled render calls.
RenderSizes == {<<160, 80>>}

\* The command texts a modelled markup is made of, one record each.
Fragments ==
    {<<"^", "X", "A">>,  \* ^XA: a no-op
     <<"^", "F", "O", "1", "0", ",", "2", "0">>,  \* ^FO10,20: the cursor
     <<"^", "A", "0", "R", ",", "4", "0">>,  \* ^A0R,40: font id, rotation and height
     <<"^", "C", "F", "B", ",", "2", "0">>,  \* ^CFB,20: the default font
     <<"^", "F", "R">>,  \* ^FR: the reverse-print flag
     <<"^", "F", "D", "H", "i">>,  \* ^FDHi: a text field
     <<"^", "G", "B", "1", "0", "0", ",", "5", "0", ",", "5">>,  \* ^GB100,50,5: a stroked box
     <<"^", "G", "F", "A", ",", "0", ",", "0", ",", "0", ",", "F">>,  \* ^GFA,0,0,0,F: a graphic field of no bytes, which throws
     <<"^", "G", "F", "H", ",", "2", ",", "2", ",", "1", ",", "H", "5">>,  \* ^GFH,2,2,1,H5: a compressed graphic field
     <<"^", "B", "Y", "3", ",", "2", ".", "5", ",", "5", "0">>,  \* ^BY3,2.5,50: the barcode defaults
     <<"^", "B", "C">>,  \* ^BC: a pending barcode
     <<"^", "L", "H", "5", ",", "6">>,  \* ^LH5,6: the label home
     <<"^", "F", "B", "2", "0", "0">>,  \* ^FB200: the block width
     <<"^", "F", "W", "I">>,  \* ^FWI: the field orientation
     <<"~", "z", "z", "9">>}  \* ~zz9: an unknown command

NoRender ==
    [pc |-> "none", calls |-> 0, zpl |-> <<>>, widthPx |-> 0, heightPx |-> 0,
     errors |-> <<>>, draws |-> <<>>, trace |-> <<>>]

\* ctx.fillStyle = '#ffffff'; ctx.fillRect(0, 0, widthPx, heightPx)
Background(widthPx, heightPx) ==
    [NoDraw EXCEPT !.op = "fillRect", !.w = widthPx, !.h = heightPx,
                   !.color = "#ffffff"]

\* A mutant of Caught: the error leaves the loop.
CaughtAborts(pc) == "returned"

\* catch (e) { errors.push(...) }: the loop goes on with the next record.
Caught(pc) == pc

\* One pass through the body of for (const cmd of commands): executeCommand
\* in try, and the catch block when it threw.  run holds the renderer's
\* fields r, errors, draws, the position pc and the trace of records executed.
ExecuteRecord(run, cmd) ==
    LET Executed(out) ==
            [r |-> out.r,
             errors |-> IF out.threw
                        THEN Append(run.errors, [command |-> cmd.command,
                                                 message |-> "IndexSizeError"])
                        ELSE run.errors,
             draws |-> run.draws \o out.draws,
             pc |-> IF out.threw THEN Caught(run.pc) ELSE run.pc,
             trace |-> Append(run.trace,
                              [command |-> cmd.command, threw |-> out.threw,
                               changed |-> out.r # run.r, drew |-> Len(out.draws)])]
    IN  Executed(executeCommand(run.r, cmd))

\* render(zpl, widthPx, heightPx) up to the loop: reset(), the label size,
\* the canvas and its white background, errors = [].
RenderEntry(r, widthPx, heightPx) ==
    [r |-> [reset(r) EXCEPT !.labelWidth = widthPx, !.labelHeight = heightPx],
     errors |-> <<>>,
     draws |-> <<Background(widthPx, heightPx)>>,
     pc |-> "loop",
     trace |-> <<>>]

RECURSIVE ExecuteAll(_, _)
\* for (const cmd of commands) { ... }
ExecuteAll(run, commands) ==
    IF commands = <<>> \/ run.pc # "loop" THEN run
    ELSE ExecuteAll(ExecuteRecord(run, Head(commands)), Tail(commands))

\* render(zpl, widthPx, heightPx) as one step, on a renderer with fields r.
RenderAll(r, text, widthPx, heightPx) ==
    ExecuteAll(RenderEntry(r, widthPx, heightPx), parseZPL(text))

\* The run of the render call in progress.
CurrentRun ==
    [r |-> renderer, errors |-> rendered.errors, draws |-> rendered.draws,
     pc |-> rendered.pc, trace |-> rendered.trace]

\* zplRenderer.render is called with a markup of which the records are told
\* one by one as the loop reaches them.
RenderBegin ==
    /\ rendered.pc \in {"none", "returned"}
    /\ rendered.calls < MaxRenders
    /\ \E size \in RenderSizes :
         LET run == RenderEntry(renderer, size[1], size[2])
         IN  /\ renderer' = run.r
             /\ rendered' = [pc |-> run.pc, calls |-> rendered.calls + 1,
                             zpl |-> <<>>, widthPx |-> size[1], heightPx |-> size[2],
                             errors |-> run.errors, draws |-> run.draws,
                             trace |-> run.trace]
    /\ UNCHANGED <<printVars, sizeVars, previewVars, pureVars>>

\* The loop executes the next record: the one the parser yields for the next
\* command text of the markup, one of the fragments, of at most so many.
RenderRecordOf(fragments, most) ==
    /\ rendered.pc = "loop"
    /\ Len(rendered.trace) < most
    /\ \E f \in fragments :
         \E commands \in {parseZPL(rendered.zpl \o f)} :
           /\ Len(commands) = Len(rendered.trace) + 1
           /\ \E run \in {ExecuteRecord(CurrentRun, commands[Len(commands)])} :
                /\ renderer' = run.r
                /\ rendered' = [rendered EXCEPT !.pc = run.pc, !.zpl = @ \o f,
                                                !.errors = run.errors,
                                                !.draws = run.draws,
                                                !.trace = run.trace]
    /\ UNCHANGED <<printVars, sizeVars, previewVars, pureVars>>

RenderRecord == RenderRecordOf(Fragments, MaxRecords)

\* The most records of a render call that sets up and draws text fields.
MaxFieldRecords == 3

\* The command texts of text fields: fonts, orientations, origins, the
\* reverse marker and the field data.
FieldFragments ==
    {<<"^", "A", "D", "N", ",", "1", "8", ",", "1", "0">>,  \* ^ADN,18,10: font D
     <<"^", "A", "0", "N", ",", "1", "8">>,  \* ^A0N,18: a height and no width
     <<"^", "C", "F", "B", ",", "2", "0">>,  \* ^CFB,20: a height and no width
     <<"^", "F", "W", "R">>,  \* ^FWR: fields rotated
     <<"^", "F", "W", "x">>,  \* ^FWx: no orientation
     <<"^", "F", "O", "1", "0", ",", "2", "0">>,  \* ^FO10,20
     <<"^", "F", "O", "-", "5", ",", "3">>,  \* ^FO-5,3: left of the label
     <<"^", "F", "O", ",", "7">>,  \* ^FO,7: no x
     <<"^", "F", "R">>,  \* ^FR
     <<"^", "F", "D", "H", "i">>}  \* ^FDHi

\* The loop executes the next record of a markup of text fields.
FieldRecord == RenderRecordOf(FieldFragments, MaxFieldRecords)

\* The most records of a render call that places barcodes and boxes.
MaxShapeRecords == 3

\* The command texts of barcodes, boxes and the fields around them.
ShapeFragments ==
    {<<"^", "F", "O", "1", "0", ",", "2", "0">>,  \* ^FO10,20
     <<"^", "F", "D", "H", "i">>,  \* ^FDHi
     <<"^", "B", "C", "R", ",", "4", "0">>,  \* ^BCR,40
     <<"^", "B", "Q", ",", "2", ",", "4">>,  \* ^BQ,2,4: no orientation given
     <<"^", "G", "B", "1", "0", ",", "6", ",", "2">>,  \* ^GB10,6,2: the thickest stroke
     <<"^", "G", "B", "1", "0", ",", "6", ",", "3">>,  \* ^GB10,6,3: half the height, filled
     <<"^", "G", "B", "8", ",", "8", ",", "4", ",", "W", ",", "2">>,  \* ^GB8,8,4,W,2: rounded and filled
     <<"^", "G", "B", "1", "0", ",", "6", ",", "-", "3">>}  \* ^GB10,6,-3: a negative thickness

\* The loop executes the next record of a markup of barcodes and boxes.
ShapeRecord == RenderRecordOf(ShapeFragments, MaxShapeRecords)

\* The markup has no further record: return { canvas, errors }.
RenderReturn ==
    /\ rendered.pc = "loop"
    /\ renderer' = renderer
    /\ rendered' = [rendered EXCEPT !.pc = "returned"]
    /\ UNCHANGED <<printVars, sizeVars, previewVars, pureVars>>

\* The markups given whole to the modelled render calls and typed into the
\* application.

\* "^XA^FO10,10^GB100,50,5^FS^XZ"
BoxMarkup ==
    <<"^", "X", "A", "^", "F", "O", "1", "0", ",", "1", "0", "^", "G", "B",
      "1", "0", "0", ",", "5", "0", ",", "5", "^", "F", "S", "^", "X", "Z">>

\* "^FO10,20^GFA,0,0,0,F^FDHi": the second record throws
ThrowingMarkup ==
    <<"^", "F", "O", "1", "0", ",", "2", "0", "^", "G", "F", "A", ",", "0",
      ",", "0", ",", "0", ",", "F", "^", "F", "D", "H", "i">>

\* "^FO10,20^BC~zz9^FDHi": a pending barcode and an unknown command
BarcodeMarkup ==
    <<"^", "F", "O", "1", "0", ",", "2", "0", "^", "B", "C", "~", "z", "z",
      "9", "^", "F", "D", "H", "i">>

Markups == {ExampleText, BoxMarkup, ThrowingMarkup, BarcodeMarkup}

\* zplRenderer.render is called with a whole markup.
RenderMarkup ==
    /\ rendered.pc \in {"none", "returned"}
    /\ rendered.calls < MaxRenders
    /\ \E text \in Markups, size \in RenderSizes :
         \E run \in {RenderAll(renderer, text, size[1], size[2])} :
           /\ renderer' = run.r
           /\ rendered' = [pc |-> "returned", calls |-> rendered.calls + 1,
                           zpl |-> text, widthPx |-> size[1], heightPx |-> size[2],
                           errors |-> run.errors, draws |-> run.draws,
                           trace |-> run.trace]
    /\ UNCHANGED <<printVars, sizeVars, previewVars, pureVars>>

\* --------------------------------------- app.js: the preview and its bitmap

\* state.currentBitmap = null
NoBitmap == [isNull |-> TRUE, width |-> 0, height |-> 0, length |-> 0]

\* The largest canvas side every browser the application runs in supports.
\* Past it the browser chooses whether reading the canvas back works.
MaxCanvasSide == 32767

\* Whether ctx.getImageData(0, 0, canvas.width, canvas.height) can throw, and
\* whether it can return: it throws IndexSizeError for a side of zero.
ReadBackOutcomes(width, height) ==
    IF width = 0 \/ height = 0 THEN {"throws"}
    ELSE IF width > MaxCanvasSide \/ height > MaxCanvasSide THEN {"throws", "returns"}
    ELSE {"returns"}

\* A mutant of SizeRejected: the validation's result is not looked at.
SizeNeverRejected(v) == FALSE

\* if (!validation.valid)
SizeRejected(v) == ~v.valid

\* A mutant of updatePrintButton: a running job does not disable the button.
updatePrintButtonIdle(connected, bitmap, printing) ==
    printBtnDisabled' = ~(connected /\ ~bitmap.isNull)

\* updatePrintButton() when getConnectionStatus(), state.currentBitmap and
\* state.isPrinting are as given: printBtn.disabled = !canPrint.
updatePrintButton(connected, bitmap, printing) ==
    printBtnDisabled' = ~(connected /\ ~bitmap.isNull /\ ~printing)

\* renderPreview(), run at the end of a handler that has set state.zpl and the
\* label size: nothing to render, a rejected size, or a render into a canvas of
\* the validated size whose monochrome bitmap becomes state.currentBitmap.
renderPreview ==
    LET text == trim(zpl')
        v    == validateLabelSize(labelWidth', labelHeight')
    IN  IF text = <<>> \/ SizeRejected(v)
        THEN /\ currentBitmap' = NoBitmap
             /\ updatePrintButton(getConnectionStatus, NoBitmap, isPrinting)
             /\ UNCHANGED renderVars
        ELSE /\ \E run \in {RenderAll(renderer, text, v.widthPx, v.heightPx)} :
                  /\ renderer' = run.r
                  /\ rendered' = [rendered EXCEPT !.pc = "returned", !.zpl = text,
                                                  !.widthPx = v.widthPx,
                                                  !.heightPx = v.heightPx,
                                                  !.errors = run.errors,
                                                  !.draws = run.draws,
                                                  !.trace = run.trace]
             /\ \E outcome \in ReadBackOutcomes(v.widthPx, v.heightPx) :
                  currentBitmap' =
                    IF outcome = "throws" THEN NoBitmap
                    ELSE [isNull |-> FALSE, width |-> v.widthPx, height |-> v.heightPx,
                          length |-> CeilDiv(v.widthPx, 8) * v.heightPx]
             /\ updatePrintButton(getConnectionStatus, currentBitmap', isPrinting)

\* updateSizeInfo(): the size line shows the validation of the new size.
updateSizeInfo == validation' = validateLabelSize(labelWidth', labelHeight')

\* handleSizeInputChange for what the user typed, out of the given texts (0
\* stands for a text parseFloat does not read, or reads as 0):
\* parseFloat(value) || 40 (|| 30), updateSizeInfo(), renderPreview().
SizeInputChange(widths, heights) ==
    /\ \E wIn \in widths, hIn \in heights :
        /\ labelWidth' = IF wIn = 0 THEN 40 * MmScale ELSE wIn
        /\ labelHeight' = IF hIn = 0 THEN 30 * MmScale ELSE hIn
    /\ UNCHANGED <<zpl, zplInput, isPrinting, connectBtnText, connectionStatus>>
    /\ updateSizeInfo
    /\ renderPreview
    /\ rasterHeader' = <<>>
    /\ UNCHANGED <<printVars, pureVars>>

\* PRESETS, in units of 1/MmScale mm.
PRESETS ==
    [p \in {"40x30", "30x15", "50x30", "40x20"} |->
        IF p = "40x30" THEN [width |-> 40 * MmScale, height |-> 30 * MmScale]
        ELSE IF p = "30x15" THEN [width |-> 30 * MmScale, height |-> 15 * MmScale]
        ELSE IF p = "50x30" THEN [width |-> 50 * MmScale, height |-> 30 * MmScale]
        ELSE [width |-> 40 * MmScale, height |-> 20 * MmScale]]

\* handlePresetChange: a preset sets the label size, "custom" leaves it;
\* updateSizeInfo(), renderPreview().
handlePresetChange ==
    /\ \E preset \in DOMAIN PRESETS \cup {"custom"} :
        IF preset \in DOMAIN PRESETS
        THEN /\ labelWidth' = PRESETS[preset].width
             /\ labelHeight' = PRESETS[preset].height
        ELSE UNCHANGED <<labelWidth, labelHeight>>
    /\ UNCHANGED <<zpl, zplInput, isPrinting, connectBtnText, connectionStatus>>
    /\ updateSizeInfo
    /\ renderPreview
    /\ rasterHeader' = <<>>
    /\ UNCHANGED <<printVars, pureVars>>

\* What the text box and the clipboard hold: a markup, nothing, or blanks.
ZplInputs == Markups \cup {<<>>, <<" ">>}

\* handleZplInput with the text box holding value:
\* state.zpl = elements.zplInput.value; renderPreview().
ZplInputHandler(value) ==
    /\ zpl' = value
    /\ UNCHANGED <<labelWidth, labelHeight, isPrinting, connectBtnText,
                   connectionStatus>>
    /\ renderPreview
    /\ UNCHANGED <<printVars, pureVars, validation, rasterHeader>>

\* The user edits the text box and the debounced handleZplInput runs 300 ms
\* after the last keystroke, with no other event in between.
ZplInput(texts) ==
    \E text \in texts :
        /\ zplInput' = text
        /\ ZplInputHandler(text)

handleZplInput == ZplInput(ZplInputs)

\* handleClearZpl: elements.zplInput.value = '', state.zpl = '',
\* state.currentBitmap = null, hidePreview(), updatePrintButton().
handleClearZpl ==
    /\ zplInput' = <<>>
    /\ zpl' = <<>>
    /\ currentBitmap' = NoBitmap
    /\ updatePrintButton(getConnectionStatus, NoBitmap, isPrinting)
    /\ UNCHANGED <<printVars, pureVars, sizeVars, renderVars, isPrinting,
                   connectBtnText, connectionStatus>>

\* handlePasteZpl once the clipboard was read, holding one of the texts:
\* elements.zplInput.value = text, state.zpl = text and renderPreview().  When
\* the read fails a toast is all that happens.
PasteZpl(texts) ==
    /\ \E text \in texts : zplInput' = text /\ zpl' = text
    /\ UNCHANGED <<labelWidth, labelHeight, isPrinting, connectBtnText,
                   connectionStatus>>
    /\ renderPreview
    /\ UNCHANGED <<printVars, pureVars, validation, rasterHeader>>

handlePasteZpl == PasteZpl(ZplInputs)

\* The sizes typed while a markup is shown: too narrow, the narrowest, the
\* widest, too wide; no height, a negative height, one dot, and one past 16
\* bits of dots.
PreviewWidths == {19 * MmScale, 20 * MmScale, 48 * MmScale, 48 * MmScale + 1}

PreviewHeights == {0, -MmScale, 1, 8192 * MmScale}

\* handleSizeInputChange as the user types a size into the fields.
handleSizeInputChange == SizeInputChange(WidthInputs, HeightInputs)

\* handleSizeInputChange while a markup is shown.
handleSizeInputEdit == SizeInputChange(PreviewWidths, PreviewHeights)

\* A label of the validated size is rendered (canvas.width = widthPx,
\* canvas.height = heightPx) and printed: printBitmap builds the raster header
\* from the canvas size.
PrintAtSize ==
    /\ UNCHANGED printVars
    /\ validation.valid
    /\ rasterHeader' = buildRasterHeader(validation.widthPx, validation.heightPx)
    /\ UNCHANGED <<labelWidth, labelHeight, validation, previewVars, renderVars,
                   pureVars>>


\* ------------------------------------------------ app.js: printing a label

\* The tallest bitmap whose print job is followed.
MaxPrintRows == 3

\* What the user types and pastes while a printer is in use: nothing, and a
\* markup with a record that throws.
AppTexts == {<<>>, ThrowingMarkup}

\* The sizes the user types while a printer is in use: too narrow and the
\* widest; three dots high, and too high for every canvas to be read back.
AppWidths == {19 * MmScale, 48 * MmScale}

AppHeights == {6, 8192 * MmScale}

\* What the copies field holds while a printer is in use: one copy.
AppCopies == {1}

\* A handler of the application runs when the job, if there is one, is
\* suspended at an await.

handleZplInputApp == AtAwait /\ ZplInput(AppTexts)

handleClearZplApp == AtAwait /\ handleClearZpl

handlePasteZplApp == AtAwait /\ PasteZpl(AppTexts)

handleSizeInputApp == AtAwait /\ SizeInputChange(AppWidths, AppHeights)

\* const copies = Math.max(1, parseInt(elements.copiesInput.value) || 1);
\* printBitmap for one copy, printMultiple for more.
PrintJob(copies) ==
    [NoJob EXCEPT !.op = IF copies = 1 THEN "printBitmap" ELSE "printMultiple",
                  !.bitmap = Bitmap(0, currentBitmap.length),
                  !.width = currentBitmap.width,
                  !.height = currentBitmap.height,
                  !.copies = IF copies = 1 THEN 0 ELSE copies]

\* What the copies field holds when several copies are printed.
MultiCopies == {2}

\* A click on the print button, which is not disabled, with the copies field
\* holding one of the given numbers: handlePrint up to its await.  With no
\* bitmap or no connection it shows a toast and returns; otherwise
\* state.isPrinting = true, updatePrintButton(), and the printer is called
\* with state.currentBitmap's data, width and height.
PrintClick(copiesOffered) ==
    /\ AtAwait
    /\ ~printBtnDisabled
    /\ ~currentBitmap.isNull
    /\ getConnectionStatus
    /\ currentBitmap.height <= MaxPrintRows
    /\ \E copies \in copiesOffered : BeginCall(PrintJob(copies), "check")
    /\ isPrinting' = TRUE
    /\ updatePrintButton(getConnectionStatus, currentBitmap, TRUE)
    /\ UNCHANGED <<sizeVars, renderVars, pureVars, zpl, currentBitmap, zplInput,
                   connectBtnText, connectionStatus>>

handlePrint == PrintClick(AppCopies)

\* A mutant of handlePrintFinally: the text is cleared with the job.
handlePrintFinallyClears ==
    /\ isPrinting
    /\ TakeResult
    /\ isPrinting' = FALSE
    /\ updatePrintButton(getConnectionStatus, currentBitmap, FALSE)
    /\ zpl' = <<>>
    /\ zplInput' = <<>>
    /\ UNCHANGED <<sizeVars, renderVars, pureVars, currentBitmap, connectBtnText,
                   connectionStatus>>

\* A mutant of handlePrintFinally: state.isPrinting is reset after a job that
\* succeeded only.
handlePrintFinallyOnSuccess ==
    /\ isPrinting
    /\ isPrinting' = (result = "rejected")
    /\ updatePrintButton(getConnectionStatus, currentBitmap, result = "rejected")
    /\ TakeResult
    /\ UNCHANGED <<sizeVars, renderVars, pureVars, zpl, currentBitmap, zplInput,
                   connectBtnText, connectionStatus>>

\* handlePrint after its await, the printer's promise resolved or rejected:
\* a status line and a toast, and in finally state.isPrinting = false and
\* updatePrintButton().
handlePrintFinally ==
    /\ isPrinting
    /\ TakeResult
    /\ isPrinting' = FALSE
    /\ updatePrintButton(getConnectionStatus, currentBitmap, FALSE)
    /\ UNCHANGED <<sizeVars, renderVars, pureVars, zpl, currentBitmap, zplInput,
                   connectBtnText, connectionStatus>>

\* handleDisconnected: the status loses the class connected, the button reads
\* 'Connect Printer', updatePrintButton() with the connection gone.
ShowDisconnected ==
    /\ connectionStatus' = "disconnected"
    /\ connectBtnText' = "Connect Printer"
    /\ updatePrintButton(FALSE, currentBitmap, isPrinting)
    /\ UNCHANGED <<sizeVars, renderVars, pureVars, zpl, currentBitmap, zplInput,
                   isPrinting>>

\* A click on the connect button, which is disabled while connect() runs:
\* handleConnect calls disconnect() when getConnectionStatus() is true (the
\* 'disconnected' event runs handleDisconnected), and otherwise shows
\* 'Connecting...' and awaits connect().
handleConnect ==
    \/ /\ disconnect
       /\ ShowDisconnected
    \/ /\ requestDevice
       /\ connectBtnText' = "Connecting..."
       /\ UNCHANGED <<sizeVars, renderVars, pureVars, zpl, currentBitmap, zplInput,
                      isPrinting, printBtnDisabled, connectionStatus>>

\* connect() succeeds: its 'connected' event runs handleConnected (the status
\* gets the class connected, the button reads 'Disconnect',
\* updatePrintButton()), and handleConnect's finally enables the button.
handleConnected ==
    /\ emitConnected
    /\ connectionStatus' = "connected"
    /\ connectBtnText' = "Disconnect"
    /\ updatePrintButton(gattConnected, currentBitmap, isPrinting)
    /\ UNCHANGED <<sizeVars, renderVars, pureVars, zpl, currentBitmap, zplInput,
                   isPrinting>>

\* The link drops: the 'disconnected' event runs handleDisconnected.
handleDisconnected ==
    /\ gattServerDisconnected
    /\ ShowDisconnected

\* The heights typed while copies are printed: two dots and three dots.
CopiesHeights == {4, 6}

\* The size is changed while copies are printed: the preview is rendered
\* again at the new size.
handleSizeInputCopies == AtAwait /\ SizeInputChange({48 * MmScale}, CopiesHeights)

\* A click on the print button with the copies field holding several.
handlePrintCopies == PrintClick(MultiCopies)

\* -------------------------------------------- utils.js: toMonochromeBitmap

\* The largest image whose pixels are drawn.
MaxImageWidth == 9
MaxImageHeight == 2

\* A grayscale value is a whole number of 1/GrayUnit: thousandths carry the
\* luminance weights and 1/256 carries two rounds of error diffusion. The
\* Float32Array stores the weighted sum rounded to 24 bits; for every one of
\* the 2^24 colours the rounded sum is below 128 exactly when the sum of
\* thousandths is below 128000, and a gray (v, v, v) is stored as v.
GrayUnit == 256000

\* A pixel is <<red, green, blue>>; the alpha byte data[idx + 3] is not read.
\* 0.299 * data[idx] + 0.587 * data[idx + 1] + 0.114 * data[idx + 2]
Luminance(p) == (299 * p[1] + 587 * p[2] + 114 * p[3]) * (GrayUnit \div 1000)

\* The grayscale array after the first loop.
Grayscale(pixels) == [i \in 1..Len(pixels) |-> Luminance(pixels[i])]

\* grayscale[j] += error * weight / 16, where the guard of the statement
\* holds; exact records that no fraction finer than 1/GrayUnit was needed.
Diffuse(s, guard, j, error, weight) ==
    IF guard
    THEN [gray  |-> [s.gray EXCEPT ![j + 1] = @ + (error * weight) \div 16],
          exact |-> s.exact /\ (error * weight) % 16 = 0]
    ELSE s

\* The body of the dithering loop at pixel idx of an image width wide and
\* height high.
DitherPixel(s, idx, width, height) ==
    LET x        == idx % width
        y        == idx \div width
        oldPixel == s.gray[idx + 1]
        newPixel == IF oldPixel < 128 * GrayUnit THEN 0 ELSE 255 * GrayUnit
        error    == oldPixel - newPixel
        s0 == [s EXCEPT !.gray[idx + 1] = newPixel]
        s1 == Diffuse(s0, x + 1 < width, idx + 1, error, 7)
        s2 == Diffuse(s1, y + 1 < height /\ x > 0, (y + 1) * width + (x - 1), error, 3)
        s3 == Diffuse(s2, y + 1 < height, (y + 1) * width + x, error, 5)
    IN  Diffuse(s3, y + 1 < height /\ x + 1 < width, (y + 1) * width + (x + 1), error, 1)

RECURSIVE DitherFrom(_, _, _, _)
\* The dithering loops from pixel idx on, row by row; they are followed as far
\* as the values are exact.
DitherFrom(s, idx, width, height) ==
    IF idx >= width * height \/ ~s.exact
    THEN s
    ELSE DitherFrom(DitherPixel(s, idx, width, height), idx + 1, width, height)

\* if (dither) { ... }
Dithered(gray, dither, width, height) ==
    IF dither
    THEN DitherFrom([gray |-> gray, exact |-> TRUE], 0, width, height)
    ELSE [gray |-> gray, exact |-> TRUE]

\* A mutant of RowBytes: the bytes of a row are rounded down.
RowBytesFloor(width) == width \div 8

\* Math.ceil(width / 8)
RowBytes(width) == CeilDiv(width, 8)

\* A mutant of IsWhite: a value of exactly 128 is black.
IsWhiteAbove(value) == value > 128 * GrayUnit

\* grayscale[idx] >= 128
IsWhite(value) == value >= 128 * GrayUnit

\* The packing loops: bit bitIdx of bitmap[byteIdx] is set by some white pixel
\* (x, y) that the loops map to it; a write beyond a Uint8Array is dropped.
Pack(gray, width, height, perRow) ==
    [k \in 1..(perRow * height) |->
        LET Bit(bitIdx) ==
                IF \E x \in 0..(width - 1), y \in 0..(height - 1) :
                      /\ y * perRow + (x \div 8) = k - 1
                      /\ 7 - (x % 8) = bitIdx
                      /\ IsWhite(gray[y * width + x + 1])
                THEN 2 ^ bitIdx
                ELSE 0
        IN  Bit(0) + Bit(1) + Bit(2) + Bit(3) + Bit(4) + Bit(5) + Bit(6) + Bit(7)]

\* toMonochromeBitmap(imageData, dither)
toMonochromeBitmap(pixels, width, height, dither) ==
    Pack(Dithered(Grayscale(pixels), dither, width, height).gray,
         width, height, RowBytes(width))

\* The colours drawn: black, white, the two grays and two colours on either
\* side of the threshold, a dark gray, and red and green.
SamplePixels ==
    {<<0, 0, 0>>, <<255, 255, 255>>, <<128, 128, 128>>, <<127, 127, 127>>,
     <<1, 189, 147>>, <<0, 173, 232>>, <<16, 16, 16>>, <<255, 0, 0>>,
     <<0, 255, 0>>}

\* How the two colours of an image are laid out.
ImageLayouts == {"flat", "first", "lastColumn", "stripes", "rows"}

InLayout(layout, x, y, width) ==
    CASE layout = "flat"       -> TRUE
      [] layout = "first"      -> x = 0 /\ y = 0
      [] layout = "lastColumn" -> x = width - 1
      [] layout = "stripes"    -> x % 2 = 1
      [] layout = "rows"       -> y % 2 = 1

\* The images of one size, row by row.
Images(width, height) ==
    {[i \in 1..(width * height) |->
        IF InLayout(layout, (i - 1) % width, (i - 1) \div width, width)
        THEN p ELSE q] :
     layout \in ImageLayouts, p \in SamplePixels, q \in SamplePixels}

\* Dithering the image needs no fraction that the grayscale values lack.
DitherIsExact(pixels, width, height) ==
    /\ \A i \in 1..Len(pixels) : pixels[i][1] = pixels[i][2] /\ pixels[i][2] = pixels[i][3]
    /\ Dithered(Grayscale(pixels), TRUE, width, height).exact

NoMonoCall ==
    [pc |-> "none", pixels |-> <<>>, width |-> 0, height |-> 0,
     dither |-> FALSE, bitmap |-> <<>>, gray |-> <<>>, idx |-> 0, writes |-> {},
     printerData |-> <<>>, header |-> <<>>]

\* A caller holds the image data of a canvas.
MonoCallsOf(width, height) ==
    {[NoMonoCall EXCEPT !.pc = "call", !.pixels = pixels, !.width = width,
                        !.height = height, !.dither = dither] :
        dither \in BOOLEAN, pixels \in Images(width, height)}

MonoCalls ==
    UNION {MonoCallsOf(width, height) :
              width \in 1..MaxImageWidth, height \in 1..MaxImageHeight}

\* bitmap = toMonochromeBitmap(imageData, dither)
CallToMonochromeBitmap ==
    /\ monoCall.pc = "call"
    /\ monoCall' = [monoCall EXCEPT
                       !.pc = "done",
                       !.bitmap = toMonochromeBitmap(monoCall.pixels, monoCall.width,
                                                     monoCall.height, monoCall.dither)]
    /\ UNCHANGED <<printVars, sizeVars, previewVars, renderVars, parseCall, decodeCall>>

\* A mutant of DitherWrites: the error goes east and south-east from the last
\* column as well.
DitherWritesWrap(idx, width, height) ==
    LET x == idx % width
        y == idx \div width
        When(guard, j, weight) == IF guard THEN {<<j, weight>>} ELSE {}
    IN  When(TRUE, idx + 1, 7)
        \cup When(y + 1 < height /\ x > 0, (y + 1) * width + (x - 1), 3)
        \cup When(y + 1 < height, (y + 1) * width + x, 5)
        \cup When(y + 1 < height, (y + 1) * width + (x + 1), 1)

\* The elements of grayscale that the body of the dithering loop at pixel idx
\* adds to, each with the sixteenths of the error it adds: the statements
\* grayscale[...] += error * weight / 16 whose guards hold.
DitherWrites(idx, width, height) ==
    LET x == idx % width
        y == idx \div width
        When(guard, j, weight) == IF guard THEN {<<j, weight>>} ELSE {}
    IN  When(x + 1 < width, idx + 1, 7)
        \cup When(y + 1 < height /\ x > 0, (y + 1) * width + (x - 1), 3)
        \cup When(y + 1 < height, (y + 1) * width + x, 5)
        \cup When(y + 1 < height /\ x + 1 < width, (y + 1) * width + (x + 1), 1)

\* toMonochromeBitmap(imageData, true) up to the dithering loops.
DitherBegin ==
    /\ monoCall.pc = "call"
    /\ monoCall.dither
    /\ monoCall' = [monoCall EXCEPT !.pc = "dither", !.idx = 0,
                                    !.gray = Grayscale(monoCall.pixels)]
    /\ UNCHANGED <<printVars, sizeVars, previewVars, renderVars, parseCall, decodeCall>>

\* One pass of the body of the dithering loops, at pixel idx.
DitherStep ==
    /\ monoCall.pc = "dither"
    /\ monoCall.idx < monoCall.width * monoCall.height
    /\ monoCall' = [monoCall EXCEPT
                       !.gray = DitherPixel([gray |-> monoCall.gray, exact |-> TRUE],
                                            monoCall.idx, monoCall.width,
                                            monoCall.height).gray,
                       !.writes = DitherWrites(monoCall.idx, monoCall.width,
                                               monoCall.height),
                       !.idx = @ + 1]
    /\ UNCHANGED <<printVars, sizeVars, previewVars, renderVars, parseCall, decodeCall>>

\* The dithering loops are left; the packing loops; return bitmap.
DitherEnd ==
    /\ monoCall.pc = "dither"
    /\ monoCall.idx = monoCall.width * monoCall.height
    /\ monoCall' = [monoCall EXCEPT
                       !.pc = "done",
                       !.bitmap = Pack(monoCall.gray, monoCall.width, monoCall.height,
                                       RowBytes(monoCall.width))]
    /\ UNCHANGED <<printVars, sizeVars, previewVars, renderVars, parseCall, decodeCall>>

\* printBitmap(bitmap, width, height) on the bitmap returned, as far as it
\* encodes: printerData = convertBitmapForPrinter(bitmap, width, height) and
\* header = buildRasterHeader(width, height).
EncodeForPrinter ==
    /\ monoCall.pc = "done"
    /\ monoCall' = [monoCall EXCEPT
                       !.pc = "encoded",
                       !.printerData = convertBitmapForPrinter(monoCall.bitmap),
                       !.header = buildRasterHeader(monoCall.width, monoCall.height)]
    /\ UNCHANGED <<printVars, sizeVars, previewVars, renderVars, parseCall, decodeCall>>

\* ----------------------------------------------------- the specifications

PreviewInit ==
    /\ zpl = <<>>
    /\ currentBitmap = NoBitmap
    /\ zplInput = <<>>
    /\ isPrinting = FALSE
    /\ printBtnDisabled = TRUE
    /\ connectBtnText = "Connect Printer"
    /\ connectionStatus = "disconnected"

\* export const zplRenderer = new ZPLRenderer(); no render call yet.
RenderInit ==
    /\ renderer = NewRenderer
    /\ rendered = NoRender

PureInit ==
    /\ parseCall = NoParseCall
    /\ decodeCall = NoDecodeCall
    /\ monoCall = NoMonoCall

Init == PrintInit /\ SizeInit /\ PreviewInit /\ RenderInit /\ PureInit

\* A caller holds a text to parse.
ParseInit ==
    /\ PrintInit /\ SizeInit /\ PreviewInit /\ RenderInit
    /\ parseCall \in {[NoParseCall EXCEPT !.zpl = text] : text \in ParseTexts}
    /\ decodeCall = NoDecodeCall
    /\ monoCall = NoMonoCall

\* A caller holds compressed data and the total it declares.
DecodeInit ==
    /\ PrintInit /\ SizeInit /\ PreviewInit /\ RenderInit
    /\ parseCall = NoParseCall
    /\ decodeCall \in {[NoDecodeCall EXCEPT !.pc = "call", !.data = data,
                                             !.totalBytes = totalBytes] :
                          data \in TextsOver(DecodeAlphabet, MaxEncoded) \cup DecodeSamples,
                          totalBytes \in DecodeTotals}
    /\ monoCall = NoMonoCall

Next ==
    \/ ConnectStart \/ ConnectGatt \/ ConnectDone \/ ConnectFail
    \/ LinkLost \/ Disconnect
    \/ CallPrintBitmap \/ CallPrintMultiple \/ CallFeedPaper \/ CallWrite
    \/ WriteEntry \/ WriteLoop \/ SettleOk \/ SettleFailNoResp \/ SettleFailResp
    \/ ChunkDone \/ DelayDone
    \/ PbCheck \/ AfterInit \/ Sleep50Done \/ AfterHeader \/ Sleep20Done
    \/ SliceLoop \/ AfterSlice \/ Sleep100Done \/ AfterFeed \/ CopyPauseDone
    \/ FeedCheck \/ AfterFeedOnly \/ DirectCall \/ AfterDirect
    \/ Forget

Spec == Init /\ [][Next]_vars

\* The label size is typed with no markup entered.
SizeNext == handleSizeInputChange \/ PrintAtSize

SpecSize == Init /\ [][SizeNext]_vars

\* The markup and the label size are edited.
PreviewNext ==
    \/ handleSizeInputEdit \/ handlePresetChange
    \/ handleZplInput \/ handleClearZpl \/ handlePasteZpl

SpecPreview == Init /\ [][PreviewNext]_vars

\* The renderer is called.
RenderNext == RenderBegin \/ RenderRecord \/ RenderReturn \/ RenderMarkup

SpecRender == Init /\ [][RenderNext]_vars

\* The parser is called.
ParseNext == CallParseZPL

SpecParse == ParseInit /\ [][ParseNext]_vars

\* The decoder of compressed graphic fields is called.
DecodeNext == CallDecodeCompressedHex \/ DecodeStep

SpecDecode == DecodeInit /\ [][DecodeNext]_vars

\* A caller holds an image; it is dithered only where the grayscale values
\* carry every fraction the diffusion produces.
MonoInit ==
    /\ PrintInit /\ SizeInit /\ PreviewInit /\ RenderInit
    /\ parseCall = NoParseCall
    /\ decodeCall = NoDecodeCall
    /\ monoCall \in MonoCalls
    /\ monoCall.dither
          => DitherIsExact(monoCall.pixels, monoCall.width, monoCall.height)

\* The monochromizer is called and its bitmap encoded for the printer.
MonoNext == CallToMonochromeBitmap \/ EncodeForPrinter

SpecMono == MonoInit /\ [][MonoNext]_vars

\* The application is used with a printer: the markup and the size are
\* edited, the printer is connected and disconnected, single labels are
\* printed.
AppNext ==
    \/ handleZplInputApp \/ handleClearZplApp
    \/ handlePasteZplApp \/ handleSizeInputApp
    \/ handleConnect \/ ConnectGatt \/ handleConnected \/ ConnectFail
    \/ handleDisconnected
    \/ handlePrint \/ handlePrintFinally
    \/ WriteEntry \/ WriteLoop \/ SettleOk \/ SettleFailNoResp \/ SettleFailResp
    \/ ChunkDone \/ DelayDone
    \/ PbCheck \/ AfterInit \/ Sleep50Done \/ AfterHeader \/ Sleep20Done
    \/ SliceLoop \/ AfterSlice \/ Sleep100Done \/ AfterFeed

SpecApp == Init /\ [][AppNext]_vars

\* The steps of a print job: the continuations of its awaits, which run when
\* the promise awaited settles or the timer fires.
JobStep ==
    \/ handlePrintFinally
    \/ WriteEntry \/ WriteLoop \/ SettleOk \/ SettleFailNoResp \/ SettleFailResp
    \/ ChunkDone \/ DelayDone \/ PbCheck \/ AfterInit \/ Sleep50Done \/ AfterHeader
    \/ Sleep20Done \/ SliceLoop \/ AfterSlice \/ Sleep100Done \/ AfterFeed

\* The application with the event loop running a job's continuations: every
\* timer fires, and the browser settles every write it was handed.
SpecAppFair == Init /\ [][AppNext]_vars /\ WF_vars(JobStep)

\* The renderer is called with markups of text fields.
FieldNext == RenderBegin \/ FieldRecord \/ RenderReturn

SpecField == Init /\ [][FieldNext]_vars

\* Render calls on markups of barcodes and boxes.
ShapeNext == RenderBegin \/ ShapeRecord \/ RenderReturn

SpecShape == Init /\ [][ShapeNext]_vars

\* Calls of toMonochromeBitmap with dithering, followed pixel by pixel.
DitherNext == DitherBegin \/ DitherStep \/ DitherEnd

SpecDither == MonoInit /\ [][DitherNext]_vars

\* Several copies of a label are printed while the markup is typed and
\* cleared, the size changed and the printer disconnected.
CopiesNext ==
    \/ handleZplInputApp \/ handleClearZplApp \/ handleSizeInputCopies
    \/ handleConnect \/ ConnectGatt \/ handleConnected
    \/ handlePrintCopies \/ handlePrintFinally
    \/ WriteEntry \/ WriteLoop \/ SettleOk \/ SettleFailNoResp \/ SettleFailResp
    \/ ChunkDone \/ DelayDone \/ PbCheck \/ AfterInit \/ Sleep50Done \/ AfterHeader
    \/ Sleep20Done \/ SliceLoop \/ AfterSlice \/ Sleep100Done \/ AfterFeed
    \/ CopyPauseDone

SpecCopies == Init /\ [][CopiesNext]_vars

\* ============================================================== the claims

IsWrite(e) == e.kind = "write"

WriteEvents(lg) == SelectSeq(lg, IsWrite)

RECURSIVE Flatten(_)
\* The data of a sequence of write events, concatenated in order.
Flatten(ws) == IF ws = <<>> THEN <<>> ELSE Head(ws).data \o Flatten(Tail(ws))

\* Every byte handed to the transport, in write order.
Handed(lg) == Flatten(WriteEvents(lg))

\* Every transport write of the log was accepted.
AllAccepted(lg) == \A k \in 1..Len(lg) : IsWrite(lg[k]) => lg[k].st = "ok"

IsPacked(j) == Len(j.bitmap) = CeilDiv(j.width, 8) * j.height

\* The wire stream of one copy as the protocol states it: ESC @, ESC 3 0,
\* GS v 0 0 xL xH yL yH, the complemented bitmap, ESC J n.
ExpectedStream(j) ==
    <<27, 64>> \o <<27, 51, 0>>
    \o <<29, 118, 48, 0, CeilDiv(j.width, 8) % 256, CeilDiv(j.width, 8) \div 256,
         j.height % 256, j.height \div 256>>
    \o [i \in 1..Len(j.bitmap) |-> 255 - j.bitmap[i]]
    \o <<27, 74, 32>>

\* C1: a printBitmap job that succeeded with every transport write accepted, on
\* a bitmap of ceil(width/8)*height bytes, handed the transport exactly init,
\* line spacing 0, the raster header, the complemented bitmap in row-major
\* order and the feed command: slicing and chunking lose, repeat or reorder
\* no byte.
C1_StreamLayout ==
    (job.op = "printBitmap" /\ result = "resolved" /\ AllAccepted(log) /\ IsPacked(job))
        => Handed(log) = ExpectedStream(job)

\* Two slices, the first sent as two chunks, all accepted.
C1_Witness ==
    /\ job.op = "printBitmap" /\ result = "resolved" /\ AllAccepted(log)
    /\ IsPacked(job)
    /\ job.height > ROWS_PER_CHUNK
    /\ CeilDiv(job.width, 8) * ROWS_PER_CHUNK > DefaultChunkSize

\* C2: a direct bluetooth.write call that completed with every transport write
\* accepted issued exactly ceil(len/chunkSize) chunk writes, each of 1 to
\* chunkSize bytes, whose concatenation is the data; and a call made with a
\* characteristic, no rejected write and no connection event so far has
\* written a prefix of the data and, once it has ended, completed.
C2_ChunksCoverData ==
    (job.op = "write" /\ AllAccepted(log))
        => /\ \A k \in 1..Len(log) :
                IsWrite(log[k]) => Len(log[k].data) \in 1..job.chunkSize
           /\ result = "resolved" =>
                /\ Len(WriteEvents(log)) = CeilDiv(Len(job.data), job.chunkSize)
                /\ Handed(log) = job.data
           /\ (connAtCall /\ linkEvents = 0 /\ ppc = "idle") => result = "resolved"

\* The longest data in chunks of two bytes: three chunks, the last partial.
C2_Witness ==
    /\ job.op = "write" /\ result = "resolved" /\ AllAccepted(log)
    /\ Len(job.data) = MaxData /\ job.chunkSize = 2
    /\ Len(WriteEvents(log)) > 2

\* C3: at most one transport write of the job is outstanding at any time: a
\* chunk's write (and its retry with response) settles before the next starts.
C3_OneWriteInFlight == Cardinality(Pending) <= 1

\* The retry with response is in flight after the write without response was
\* rejected, with earlier chunks of the same print job already settled.
C3_Witness ==
    /\ job.op \in {"printBitmap", "printMultiple"}
    /\ Cardinality(Pending) = 1
    /\ \E k \in Pending :
        /\ log[k].mode = "resp"
        /\ log[k - 1].st = "failed"
        /\ \E m \in 1..(k - 2) : IsWrite(log[m]) /\ log[m].st = "ok"

\* A write the transport rejected in both modes: the retry with response was
\* rejected, or the write without response was and no retry could be made.
FailedBoth(lg, k) ==
    /\ IsWrite(lg[k]) /\ lg[k].st = "failed"
    /\ \/ lg[k].mode = "resp"
       \/ ~(k < Len(lg) /\ IsWrite(lg[k + 1]) /\ lg[k + 1].mode = "resp")

\* C4: when a chunk write of a print job has failed in both modes, it is the
\* last thing the job ever did (no later chunk, feed command, pause, progress
\* report or copy follows, and nothing is sent again), the job has ended and
\* its caller holds the error "Print failed: Write failed at byte ...".
C4_StopsAtFailedChunk ==
    \A k \in 1..Len(log) :
        (job.op \in {"printBitmap", "printMultiple"} /\ FailedBoth(log, k))
            => /\ k = Len(log)
               /\ ppc = "idle" /\ wpc = "none"
               /\ result = "rejected"
               /\ err.msg = "Write failed at byte" /\ err.wrapped

\* The first copy of a two-copy job fails in a bitmap slice.
C4_Witness ==
    /\ job.op = "printMultiple" /\ job.copies = 2 /\ copy = 0
    /\ result = "rejected"
    /\ Len(log) > 0 /\ FailedBoth(log, Len(log))
    /\ \E k \in 1..Len(log) : log[k].kind = "sleep" /\ log[k].a = SleepAfterHeader

RECURSIVE AcceptedBytes(_, _)
\* The bytes of the accepted writes among the log's events after index from.
AcceptedBytes(lg, from) ==
    IF from >= Len(lg) THEN 0
    ELSE (IF IsWrite(lg[Len(lg)]) /\ lg[Len(lg)].st = "ok"
          THEN Len(lg[Len(lg)].data) ELSE 0)
         + AcceptedBytes(SubSeq(lg, 1, Len(lg) - 1), from)

\* The number of accepted chunk writes: the index, from 0, of the next chunk.
AcceptedChunks(lg) ==
    Cardinality({k \in 1..Len(lg) : IsWrite(lg[k]) /\ lg[k].st = "ok"})

\* The last event that separates two write calls of a print job (each is
\* followed by a pause or a progress report), 0 if there is none.
LastBoundary(lg) ==
    LET B == {k \in 1..Len(lg) : lg[k].kind \in {"sleep", "progress"}}
    IN  IF B = {} THEN 0 ELSE CHOOSE k \in B : \A m \in B : m <= k

ChunkFailedInPrintJob ==
    /\ job.op \in {"printBitmap", "printMultiple"}
    /\ result = "rejected"
    /\ err.msg = "Write failed at byte"

\* C5 as stated: the error of a failed chunk write carries the failed chunk's
\* byte offset, or its chunk index, within the job's byte stream.
C5_OffsetInJobStream ==
    ChunkFailedInPrintJob
        => \/ err.offset = AcceptedBytes(log, 0)
           \/ err.offset = AcceptedChunks(log)

\* C5 amended: the error carries the failed chunk's byte offset within the
\* data of the write call that failed (the init command, the header, the
\* current 8-row slice or the feed command), wrapped as "Print failed: ...".
C5_OffsetInWriteCall ==
    ChunkFailedInPrintJob
        => /\ err.offset = AcceptedBytes(log, LastBoundary(log))
           /\ err.wrapped

\* The second chunk of a slice fails: offset 100 within the slice.
C5_Witness ==
    /\ ChunkFailedInPrintJob
    /\ err.offset = DefaultChunkSize
    /\ AcceptedBytes(log, 0) > DefaultChunkSize

\* C6: printBitmap and feedPaper called while getConnectionStatus() is false,
\* and printBitmap called with width > 384, are rejected by their entry check
\* (the error is not wrapped by printBitmap's catch) with nothing done: no
\* transport write, no pause, no progress report.
C6_FailFast ==
    (/\ job.op \in {"printBitmap", "feedPaper"}
     /\ ~connAtCall \/ (job.op = "printBitmap" /\ job.width > MAX_WIDTH))
        => /\ log = <<>>
           /\ ppc \in {"check", "feedCheck", "idle"}
           /\ ppc = "idle" =>
                /\ result = "rejected"
                /\ ~err.wrapped
                /\ err.msg \in {"Printer not connected", "Image width exceeds maximum"}

\* A connected printBitmap call with a bitmap one pixel too wide is rejected.
C6_Witness ==
    /\ job.op = "printBitmap" /\ connAtCall /\ job.width = MAX_WIDTH + 1
    /\ result = "rejected" /\ log = <<>>
    /\ err.msg = "Image width exceeds maximum"

\* C7 as stated: bytes 4-7 of the raster header of a bitmap rendered at a
\* validated label size, read as two little-endian 16-bit numbers, are
\* ceil(width/8) and the height.
C7_HeaderFields ==
    rasterHeader # <<>>
        => /\ rasterHeader[5] + 256 * rasterHeader[6] = CeilDiv(validation.widthPx, 8)
           /\ rasterHeader[7] + 256 * rasterHeader[8] = validation.heightPx

\* Math.round of a number of dots given in units of 1/MmScale mm times DPMM:
\* the nearest whole number, a half rounded up.
RoundDots(mmU) ==
    IF 2 * ((DPMM * mmU) % MmScale) >= MmScale
    THEN (DPMM * mmU) \div MmScale + 1
    ELSE (DPMM * mmU) \div MmScale

Clamp(x, lo, hi) == IF x < lo THEN lo ELSE IF x > hi THEN hi ELSE x

\* C8 as stated: the distance byte of every feed command written, by feedPaper
\* for the distance it was given and by printBitmap for the fixed 4 mm, is
\* round(mm * 8) clamped into 0..255.
C8_FeedByteClamped ==
    \A k \in 1..Len(log) :
        (IsWrite(log[k]) /\ Len(log[k].data) = 3 /\ log[k].data[2] = 74)
            => log[k].data[3] =
                 Clamp(RoundDots(IF job.op = "feedPaper" THEN job.mm
                                 ELSE DEFAULT_FEED_MM * MmScale), 0, 255)

\* The bitmap bytes embedded in a wire stream: what follows the 5 bytes of
\* init and line spacing and the 8 bytes of the header, up to the 3 bytes of
\* the feed command.
EmbeddedBitmap(stream) == SubSeq(stream, 14, Len(stream) - 3)

\* C9: in the stream of a successful print of a packed bitmap, the embedded
\* bitmap has the length of the original and XOR-ing each of its bytes with
\* 0xFF gives back the original, byte for byte.
C9_InversionRoundTrip ==
    (job.op = "printBitmap" /\ result = "resolved" /\ AllAccepted(log) /\ IsPacked(job))
        => /\ Len(EmbeddedBitmap(Handed(log))) = Len(job.bitmap)
           /\ \A i \in 1..Len(job.bitmap) :
                XorFF(EmbeddedBitmap(Handed(log))[i]) = job.bitmap[i]

\* A bitmap of the second pattern, of more than one slice, was printed.
C9_Witness ==
    /\ job.op = "printBitmap" /\ result = "resolved" /\ AllAccepted(log)
    /\ IsPacked(job)
    /\ job.height > ROWS_PER_CHUNK
    /\ job.bitmap[1] = 171

RECURSIVE Repeat(_, _)
Repeat(s, n) == IF n = 0 THEN <<>> ELSE s \o Repeat(s, n - 1)

IsProgress(e) == e.kind = "progress"

\* The reports of a job of N copies of T slices each: for i = 1..N in order,
\* (i, N, 0), then (i, N, 0.9 * c / T) for c = 1..T, then (i, N, 1).
ExpectedProgress(j) ==
    LET T == CeilDiv(j.height, ROWS_PER_CHUNK)
    IN  [n \in 1..(j.copies * (T + 2)) |->
            LET i == (n - 1) \div (T + 2) + 1
                r == (n - 1) % (T + 2)
            IN  IF r = 0 THEN ProgressEv(i, j.copies, 0, 1)
                ELSE IF r = T + 1 THEN ProgressEv(i, j.copies, 1, 1)
                ELSE ProgressEv(i, j.copies, r * 9, T * 10)]

CopyPauses(lg) ==
    {k \in 1..Len(lg) : lg[k].kind = "sleep" /\ lg[k].a = SleepBetweenCopies}

\* C10: a printMultiple job of N >= 1 copies that succeeded with every
\* transport write accepted handed the transport the one-copy stream N times,
\* paused exactly N - 1 times between copies, each pause after the last report
\* of a copy before the last and none after the last copy, and reported
\* (i, N, fraction) for i = 1..N in order.
C10_CopiesInOrder ==
    (job.op = "printMultiple" /\ result = "resolved" /\ AllAccepted(log))
        => /\ Handed(log) = Repeat(ExpectedStream(job), job.copies)
           /\ Cardinality(CopyPauses(log)) = job.copies - 1
           /\ \A k \in CopyPauses(log) :
                /\ 1 < k /\ k < Len(log)
                /\ log[k - 1].kind = "progress" /\ log[k - 1].c = 1
                /\ log[k - 1].a < job.copies
                /\ log[k + 1] = ProgressEv(log[k - 1].a + 1, job.copies, 0, 1)
           /\ log[Len(log)] = ProgressEv(job.copies, job.copies, 1, 1)
           /\ SelectSeq(log, IsProgress) = ExpectedProgress(job)

\* The most copies of the two-slice bitmap were printed.
C10_Witness ==
    /\ job.op = "printMultiple" /\ result = "resolved" /\ AllAccepted(log)
    /\ job.copies = MaxCopies
    /\ job.height > ROWS_PER_CHUNK

IsDelay(e) == e.kind = "delay"

\* The chunks a write call started: each starts with a write without response.
ChunkStarts(lg) == {k \in 1..Len(lg) : IsWrite(lg[k]) /\ lg[k].mode = "noResp"}

\* C11: a pacing delay only ever follows an accepted chunk write and is
\* followed by nothing but the next chunk's write (or the job fails before that
\* write reaches the transport); and a direct write call with
\* inter-chunk delay > 0 that completed has paused, for that delay, exactly once
\* between each chunk and the next and not after the last: with one chunk or
\* more, the delays are one fewer than the chunks.
C11_DelaysBetweenChunks ==
    /\ \A k \in 1..Len(log) :
          IsDelay(log[k])
            => /\ k > 1 /\ IsWrite(log[k - 1]) /\ log[k - 1].st = "ok"
               /\ k < Len(log) => (IsWrite(log[k + 1]) /\ log[k + 1].mode = "noResp")
               /\ k = Len(log) => wpc \in {"delay", "loop"} \/ result = "rejected"
    /\ (job.op = "write" /\ job.delayMs > 0 /\ result = "resolved")
         => /\ \A k \in 1..Len(log) : IsDelay(log[k]) => log[k].a = job.delayMs
            /\ Len(log) > 0 => ~IsDelay(log[Len(log)])
            /\ \A k \in ChunkStarts(log), m \in ChunkStarts(log) :
                  (k < m /\ \A n \in ChunkStarts(log) : ~(k < n /\ n < m))
                    => Cardinality({d \in (k + 1)..(m - 1) : IsDelay(log[d])}) = 1
            /\ Cardinality(ChunkStarts(log)) >= 1
                 => Cardinality({d \in 1..Len(log) : IsDelay(log[d])})
                      = Cardinality(ChunkStarts(log)) - 1

\* A paced write call of three chunks completed, one of them after a retry.
C11_Witness ==
    /\ job.op = "write" /\ job.delayMs > 0 /\ result = "resolved"
    /\ Cardinality(ChunkStarts(log)) = 3
    /\ \E k \in 1..Len(log) : IsWrite(log[k]) /\ log[k].mode = "resp"

\* The current label size has been validated by the handler that set it.
Validated == validation # NoValidation

\* C12: every validated size with 20 mm <= width <= 48 mm, height > 0 and
\* round(width * 8) <= 384 passes validation, and the pixels returned are
\* round(width * 8) and round(height * 8).
C12_ValidSizeAccepted ==
    (/\ Validated
     /\ MIN_WIDTH_MM * MmScale <= labelWidth /\ labelWidth <= MAX_WIDTH_MM * MmScale
     /\ labelHeight > 0
     /\ RoundDots(labelWidth) <= MAX_WIDTH_PX)
        => /\ validation.valid
           /\ validation.widthPx = RoundDots(labelWidth)
           /\ validation.heightPx = RoundDots(labelHeight)

\* A width of 20.0625 mm is 160.5 dots and a height of 0.0625 mm half a dot:
\* both round up.
C12_Witness ==
    /\ validation.valid
    /\ labelWidth = MIN_WIDTH_MM * MmScale + 1 /\ validation.widthPx = 161
    /\ labelHeight = 1 /\ validation.heightPx = 1

\* C13: every validated width below 20 mm or above 48 mm fails validation, with
\* the error of the width check, whatever the height is.
C13_WidthCheckedFirst ==
    /\ (Validated /\ labelWidth < MIN_WIDTH_MM * MmScale)
         => (~validation.valid /\ validation.error = "Width must be at least")
    /\ (Validated /\ labelWidth > MAX_WIDTH_MM * MmScale)
         => (~validation.valid /\ validation.error = "Width cannot exceed")

\* A width of 49 mm with a negative height fails on the width.
C13_Witness ==
    /\ Validated
    /\ labelWidth = 49 * MmScale /\ labelHeight < 0
    /\ validation.error = "Width cannot exceed"

\* The current label size passes the validation as the claim states it.
SizeIsValid ==
    /\ MIN_WIDTH_MM * MmScale <= labelWidth /\ labelWidth <= MAX_WIDTH_MM * MmScale
    /\ labelHeight > 0
    /\ RoundDots(labelWidth) <= MAX_WIDTH_PX

\* A printable bitmap is one of the current size, which is valid and at most
\* 384 dots wide, and the renderer's last render was at that size.
BitmapOfValidSize ==
    ~currentBitmap.isNull
        => /\ SizeIsValid
           /\ currentBitmap.width = RoundDots(labelWidth)
           /\ currentBitmap.height = RoundDots(labelHeight)
           /\ currentBitmap.width <= MAX_WIDTH_PX
           /\ rendered.pc = "returned"
           /\ rendered.widthPx = currentBitmap.width
           /\ rendered.heightPx = currentBitmap.height

\* A step that leaves a label size failing validation has rendered nothing
\* and leaves no printable bitmap.
NoRenderWhenRejected ==
    ~SizeIsValid' => (renderVars' = renderVars /\ currentBitmap'.isNull)

\* C14: label-size validation is enforced before any rendering: a handler that
\* ends with a label size failing validation performs no render and leaves the
\* printable bitmap null; and in every reachable state a non-null printable
\* bitmap was rendered under a size that passed validation and is at most 384
\* dots wide.
C14_ValidatedBeforeRender == []BitmapOfValidSize /\ [][NoRenderWhenRejected]_vars

\* A markup is shown, the width is set past 48 mm after a render at a valid
\* size: the bitmap is gone and the renderer is as that render left it.
C14_Witness ==
    /\ labelWidth > MAX_WIDTH_MM * MmScale
    /\ trim(zpl) # <<>>
    /\ currentBitmap.isNull
    /\ rendered.pc = "returned"
    /\ rendered.widthPx <= MAX_WIDTH_PX

\* C15 as stated: when the loop of a render call starts, every field of the
\* renderer holds its default (the label size being that of the call),
\* whatever earlier calls did; and a render call ends in the state in which
\* the same call on a new renderer ends.
C15_StateResetEveryRender ==
    /\ (rendered.pc = "loop" /\ rendered.trace = <<>>)
         => renderer = [NewRenderer EXCEPT !.labelWidth = rendered.widthPx,
                                           !.labelHeight = rendered.heightPx]
    /\ rendered.pc = "returned"
         => renderer = RenderAll(NewRenderer, rendered.zpl, rendered.widthPx,
                                 rendered.heightPx).r

Threw(entry) == entry.threw

\* C16: the records a render call has executed are the records the parser
\* yields for the markup, in parse order, all of them once the call has
\* returned; each record that threw added one diagnostic naming its command,
\* in order, and nothing else did; and the call returns whatever threw.
C16_BestEffortInOrder ==
    rendered.pc # "none"
        => /\ rendered.pc \in {"loop", "returned"}
           /\ \E commands \in {parseZPL(rendered.zpl)} :
                /\ Len(rendered.trace) = Len(commands)
                /\ \A k \in 1..Len(rendered.trace) :
                     rendered.trace[k].command = commands[k].command
           /\ Len(rendered.errors) = Len(SelectSeq(rendered.trace, Threw))
           /\ \A j \in 1..Len(rendered.errors) :
                rendered.errors[j].command
                    = SelectSeq(rendered.trace, Threw)[j].command

\* The second of three records threw, and the third drew its text.
C16_Witness ==
    /\ rendered.pc = "returned" /\ rendered.zpl = ThrowingMarkup
    /\ Len(rendered.trace) = 3 /\ rendered.trace[2].threw
    /\ Len(rendered.errors) = 1 /\ rendered.errors[1].command = Name("G", "F")
    /\ rendered.trace[3].drew = 1
    /\ rendered.draws[Len(rendered.draws)].op = "fillText"

\* The records executed whose command name executeCommand has no case for.
UnknownRecords ==
    {k \in 1..Len(rendered.trace) : rendered.trace[k].command \notin SupportedCommands}

\* C17 as stated: each record with an unsupported command name adds exactly one
\* entry to the diagnostics render returns.
C17_UnknownAddsDiagnostic ==
    rendered.pc = "returned"
        => Cardinality({j \in 1..Len(rendered.errors) :
                          rendered.errors[j].command \notin SupportedCommands})
             = Cardinality(UnknownRecords)

\* C17 amended: a record with an unsupported command name adds no entry to the
\* diagnostics render returns (it is written to the console and ignored): the
\* diagnostics name supported commands only, one entry per record that threw.
C17_UnknownNotDiagnosed ==
    rendered.pc # "none"
        => /\ \A j \in 1..Len(rendered.errors) :
                rendered.errors[j].command \in SupportedCommands
           /\ \A k \in UnknownRecords : ~rendered.trace[k].threw
           /\ Len(rendered.errors) = Len(SelectSeq(rendered.trace, Threw))

\* A render of an unknown command alone returned no diagnostic.
C17_Witness ==
    /\ rendered.pc = "returned"
    /\ Len(rendered.trace) = 1 /\ UnknownRecords = {1}
    /\ rendered.errors = <<>>

\* C18: executing a record with an unsupported command name changes no field
\* of the renderer and issues no drawing call.
C18_UnknownChangesNothing ==
    \A k \in UnknownRecords :
        ~rendered.trace[k].changed /\ rendered.trace[k].drew = 0

\* An unknown command was executed after the cursor had been moved.
C18_Witness ==
    /\ Len(rendered.trace) = 2
    /\ rendered.trace[1].command = Name("F", "O") /\ rendered.trace[1].changed
    /\ UnknownRecords = {2}
    /\ renderer.x = 10 /\ renderer.y = 20

\* The positions of a text where a command starts: a designator immediately
\* followed by a letter.
CommandStarts(text) ==
    {p \in 1..(Len(text) - 1) : text[p] \in {"^", "~"} /\ IsLetter(text[p + 1])}

\* The k-th of them.
CommandStart(text, k) ==
    CHOOSE p \in CommandStarts(text) :
        Cardinality({q \in CommandStarts(text) : q < p}) = k - 1

\* The position of the first designator after position p, or the end.
NextDesignator(text, p) ==
    LET D == {q \in (p + 1)..Len(text) : text[q] \in {"^", "~"}}
    IN  IF D = {} THEN Len(text) + 1 ELSE CHOOSE q \in D : \A m \in D : q <= m

\* The place of a letter in the alphabet, whatever its case.
LetterNumber(c) ==
    IF IndexOf(UpperCaseLetters, c) > 0 THEN IndexOf(UpperCaseLetters, c)
    ELSE IndexOf(LowerCaseLetters, c)

\* u is t without its leading and trailing white space.
IsTrimOf(u, t) ==
    \E a \in 1..(Len(t) + 1), b \in 0..Len(t) :
        /\ u = SubSeq(t, a, b)
        /\ \A i \in 1..(a - 1) : IsWhiteSpace(t[i])
        /\ \A i \in (b + 1)..Len(t) : IsWhiteSpace(t[i])
        /\ u # <<>> => (~IsWhiteSpace(u[1]) /\ ~IsWhiteSpace(u[Len(u)]))

\* C19: parseZPL yields one record per designator immediately followed by a
\* letter, in order of appearance; the record's name is the one or two letters
\* after the designator (two when two follow), in upper case, and its
\* parameter string what lies between the name and the next designator,
\* trimmed.  A text without designator yields none, and "^FO10,20^FDHi^FS"
\* yields FO "10,20", FD "Hi", FS "".
C19_ParseRecords ==
    parseCall.called
        => LET text     == parseCall.zpl
               commands == parseCall.commands
           IN  /\ Len(commands) = Cardinality(CommandStarts(text))
               /\ \A k \in 1..Len(commands) :
                    LET p == CommandStart(text, k)
                        n == Len(commands[k].command)
                    IN  /\ n \in {1, 2}
                        /\ n = 2 <=> (p + 2 <= Len(text) /\ IsLetter(text[p + 2]))
                        /\ \A i \in 1..n :
                             commands[k].command[i]
                                = UpperCaseLetters[LetterNumber(text[p + i])]
                        /\ IsTrimOf(commands[k].params,
                                    SubSeq(text, p + n + 1, NextDesignator(text, p) - 1))
               /\ (\A i \in 1..Len(text) : text[i] \notin {"^", "~"}) => commands = <<>>
               /\ text = ExampleText
                    => commands = <<[command |-> <<"F", "O">>,
                                     params |-> <<"1", "0", ",", "2", "0">>],
                                    [command |-> <<"F", "D">>, params |-> <<"H", "i">>],
                                    [command |-> <<"F", "S">>, params |-> <<>>]>>

\* A text with a designator no letter follows, a lower-case name and blanks
\* around the parameters was parsed into its one record.
C19_Witness ==
    /\ parseCall.called
    /\ parseCall.zpl = <<"^", "~", "d", " ", "1">>
    /\ parseCall.commands = <<[command |-> <<"D">>, params |-> <<"1">>]>>

\* The letters of the two repeat ranges, in order.
ShortRepeatLetters ==
    <<"G", "H", "I", "J", "K", "L", "M", "N", "O", "P", "Q", "R", "S", "T", "U",
      "V", "W", "X", "Y">>

LongRepeatLetters ==
    <<"g", "h", "i", "j", "k", "l", "m", "n", "o", "p", "q", "r", "s", "t", "u",
      "v", "w", "x", "y", "z">>

\* The value of a hexadecimal digit of either case, -1 for any other character.
NibbleOf(c) ==
    LET v == IndexOf(<<"0", "1", "2", "3", "4", "5", "6", "7", "8", "9",
                       "A", "B", "C", "D", "E", "F">>, c)
        w == IndexOf(<<"a", "b", "c", "d", "e", "f">>, c)
    IN  IF v > 0 THEN v - 1 ELSE IF w > 0 THEN w + 9 ELSE -1

\* The number of bytes a repeat letter stands for, 0 for any other character.
RunLength(c) ==
    IF IndexOf(ShortRepeatLetters, c) > 0 THEN IndexOf(ShortRepeatLetters, c)
    ELSE 20 * IndexOf(LongRepeatLetters, c)

RECURSIVE IsTokens(_)
\* The data is a sequence of tokens: a repeat letter and a hex digit, or a pair
\* of hex digits.
IsTokens(data) ==
    \/ data = <<>>
    \/ /\ Len(data) >= 2
       /\ NibbleOf(data[2]) >= 0
       /\ RunLength(data[1]) > 0 \/ NibbleOf(data[1]) >= 0
       /\ IsTokens(SubSeq(data, 3, Len(data)))

RECURSIVE Expansion(_)
\* What a sequence of tokens stands for.
Expansion(data) ==
    IF data = <<>> THEN <<>>
    ELSE (IF RunLength(data[1]) > 0
          THEN [k \in 1..RunLength(data[1]) |-> 16 * NibbleOf(data[2]) + NibbleOf(data[2])]
          ELSE <<16 * NibbleOf(data[1]) + NibbleOf(data[2])>>)
         \o Expansion(SubSeq(data, 3, Len(data)))

\* C20: the decoder, on data made of tokens, returns what the tokens stand for
\* as far as the declared total allows, the rest of the total being zero: a
\* letter G..Y and a hex digit n stand for 1..19 bytes (n << 4) | n, a letter
\* g..z and n for 20, 40, ..., 400 of them, a pair of hex digits for that
\* byte; "G0" gives one byte 0 and "Y0" nineteen.
C20_TokensDecoded ==
    (decodeCall.pc = "done" /\ IsTokens(decodeCall.data))
        => LET d      == decodeCall
               expect == Expansion(d.data)
           IN  /\ Len(d.bytes) = d.totalBytes
               /\ d.byteIdx = Min(Len(expect), d.totalBytes)
               /\ \A k \in 1..d.totalBytes :
                    d.bytes[k] = IF k <= Len(expect) THEN expect[k] ELSE 0
               /\ (d.data = <<"G", "0">> /\ d.totalBytes = 1) => d.bytes = <<0>>
               /\ (d.data = <<"Y", "0">> /\ d.totalBytes >= 19) => d.byteIdx = 19

\* "Y5" with 25 bytes declared: nineteen bytes 0x55, then zeros.
C20_Witness ==
    /\ decodeCall.pc = "done"
    /\ decodeCall.data = <<"Y", "5">> /\ decodeCall.totalBytes = 25
    /\ decodeCall.byteIdx = 19
    /\ decodeCall.bytes[19] = 85 /\ decodeCall.bytes[20] = 0

\* A character the decoder has no branch for but the last.
IsSkipped(c) == NibbleOf(c) < 0 /\ RunLength(c) = 0

RECURSIVE IsSpacedTokens(_)
\* The data is a sequence of tokens with skipped characters before, between
\* and after them.
IsSpacedTokens(data) ==
    \/ data = <<>>
    \/ IsSkipped(data[1]) /\ IsSpacedTokens(Tail(data))
    \/ /\ Len(data) >= 2
       /\ NibbleOf(data[2]) >= 0
       /\ RunLength(data[1]) > 0 \/ NibbleOf(data[1]) >= 0
       /\ IsSpacedTokens(SubSeq(data, 3, Len(data)))

NotSkipped(c) == ~IsSkipped(c)

\* C21: a character that is neither a hex digit nor a repeat letter is skipped
\* without effect on what follows: data made of tokens with such characters
\* before, between and after them decodes to the bytes, and to the number of
\* bytes, the same data without these characters decodes to.
C21_SkippedCharactersIgnored ==
    (decodeCall.pc = "done" /\ IsSpacedTokens(decodeCall.data))
        => LET tokens == SelectSeq(decodeCall.data, NotSkipped)
               alone  == DecodeRun(DecodeEntry(tokens, decodeCall.totalBytes))
           IN  /\ IsTokens(tokens)
               /\ decodeCall.bytes = alone.bytes
               /\ decodeCall.byteIdx = alone.byteIdx

\* "ZG5 5AZ" with two bytes declared gives 0x55 0x5A.
C21_Witness ==
    /\ decodeCall.pc = "done"
    /\ decodeCall.data = <<"Z", "G", "5", " ", "5", "A", "Z">>
    /\ decodeCall.totalBytes = 2
    /\ decodeCall.bytes = <<85, 90>>

\* The decoder's position is within its data and its output within the total.
DecodeWithinBounds ==
    decodeCall.pc \in {"loop", "done"}
        => /\ decodeCall.byteIdx <= decodeCall.totalBytes
           /\ Len(decodeCall.bytes) = decodeCall.totalBytes
           /\ decodeCall.i <= Len(decodeCall.data) + 1
           /\ decodeCall.pc = "done"
                => \/ decodeCall.i >= Len(decodeCall.data)
                   \/ decodeCall.byteIdx = decodeCall.totalBytes

\* A step of the loop returns when the total is reached or the data is
\* exhausted, and otherwise moves on in the data, writing only from the old
\* output index to the new one.
DecodeAdvances ==
    decodeCall.pc = "loop"
        => IF decodeCall.i >= Len(decodeCall.data)
              \/ decodeCall.byteIdx >= decodeCall.totalBytes
           THEN decodeCall' = [decodeCall EXCEPT !.pc = "done"]
           ELSE /\ decodeCall'.pc = "loop"
                /\ decodeCall'.i > decodeCall.i
                /\ decodeCall'.byteIdx >= decodeCall.byteIdx
                /\ \A k \in 1..decodeCall.totalBytes :
                     (k <= decodeCall.byteIdx \/ k > decodeCall'.byteIdx)
                        => decodeCall'.bytes[k] = decodeCall.bytes[k]

\* C22: the decoder terminates and stops as soon as the declared total is
\* reached or the data is exhausted: every pass of the loop moves the input
\* index forward, the loop returns at once when either limit is met, the output
\* index never exceeds totalBytes and nothing is written at or past totalBytes,
\* also when a repeat run is longer than what is left.
C22_DecoderStops == []DecodeWithinBounds /\ [][DecodeAdvances]_vars

\* "Y5" with two bytes declared: the run of nineteen was cut after two.
C22_Witness ==
    /\ decodeCall.pc = "done"
    /\ decodeCall.data = <<"Y", "5">> /\ decodeCall.totalBytes = 2
    /\ decodeCall.byteIdx = 2 /\ decodeCall.i = 2
    /\ decodeCall.bytes = <<85, 85>>

\* C23: the bitmap that toMonochromeBitmap returns holds exactly
\* ceil(width / 8) * height bytes, for every width >= 1 and height >= 1, with
\* dithering and without it.
C23_PackedLength ==
    monoCall.pc = "done"
        => /\ monoCall.width >= 1 /\ monoCall.height >= 1
           /\ Len(monoCall.bitmap) = CeilDiv(monoCall.width, 8) * monoCall.height
           /\ \A k \in 1..Len(monoCall.bitmap) : monoCall.bitmap[k] \in 0..255

\* A dithered image 9 pixels wide and 2 high is packed into 4 bytes.
C23_Witness ==
    /\ monoCall.pc = "done"
    /\ monoCall.dither
    /\ monoCall.width = 9 /\ monoCall.height = 2
    /\ Len(monoCall.bitmap) = 4

\* Bit bitIdx (0 the lowest) of a byte.
BitOf(byte, bitIdx) == (byte \div (2 ^ bitIdx)) % 2

\* The luminance of pixel (x, y) of the image, in thousandths.
LuminanceAt(x, y) ==
    LET p == monoCall.pixels[y * monoCall.width + x + 1]
    IN  299 * p[1] + 587 * p[2] + 114 * p[3]

\* C24: without dithering, the bit of pixel (x, y) is bit 7 - (x mod 8) of byte
\* y * ceil(width / 8) + floor(x / 8), and it is 1 exactly when the luminance
\* of the pixel is at least 128; the bits of a row beyond the width are 0.
C24_BitLayout ==
    (monoCall.pc = "done" /\ ~monoCall.dither)
        => /\ \A x \in 0..(monoCall.width - 1), y \in 0..(monoCall.height - 1) :
                 BitOf(monoCall.bitmap[y * CeilDiv(monoCall.width, 8) + (x \div 8) + 1],
                       7 - (x % 8))
                    = IF LuminanceAt(x, y) >= 128000 THEN 1 ELSE 0
           /\ \A x \in monoCall.width..(8 * CeilDiv(monoCall.width, 8) - 1),
                 y \in 0..(monoCall.height - 1) :
                 BitOf(monoCall.bitmap[y * CeilDiv(monoCall.width, 8) + (x \div 8) + 1],
                       7 - (x % 8)) = 0

\* An image of pure 128 gray, 9 wide and 1 high, comes out all white, with the
\* seven padding bits of its second byte 0.
C24_Witness ==
    /\ monoCall.pc = "done"
    /\ ~monoCall.dither
    /\ monoCall.width = 9 /\ monoCall.height = 1
    /\ \A i \in 1..9 : monoCall.pixels[i] = <<128, 128, 128>>
    /\ monoCall.bitmap = <<255, 128>>

\* A step changes state.zpl or the value of the text box.
TextChanged == zpl' # zpl \/ zplInput' # zplInput

\* A step in which something fails: the size is rejected, the render throws
\* (the preview has a markup and yet no bitmap), connect() fails, or the print
\* job's promise is rejected.
FailureStep ==
    \/ ~validation'.valid /\ validation' # validation
    \/ trim(zpl') # <<>> /\ validation'.valid /\ currentBitmap'.isNull
          /\ rendered' # rendered
    \/ cpc \in {"connecting", "discover"} /\ cpc' = "none" /\ ~isConnected'
    \/ result = "pending" /\ result' = "rejected"

\* C25: the ZPL text is never lost on error. Only the input, paste and clear
\* handlers change state.zpl or the text box; a step in which the validation,
\* the render, the connection or the print job fails leaves both as they were,
\* or, when it is the input or paste handler whose render fails, holding the
\* text the user entered.
C25_TextKeptOnError ==
    [][/\ TextChanged => (handleZplInputApp \/ handlePasteZplApp \/ handleClearZplApp)
       /\ FailureStep
            => \/ ~TextChanged
               \/ zpl' = zplInput' /\ zpl' # <<>>
                    /\ (handleZplInputApp \/ handlePasteZplApp)]_vars

\* The print job of a markup's label was rejected and the handler has not
\* yet taken the error: the text is still there.
C25_Witness ==
    /\ isPrinting
    /\ result = "rejected"
    /\ zpl = ThrowingMarkup
    /\ zplInput = ThrowingMarkup
\* A step of the render loop: one more record has been executed.
RecordStep ==
    /\ rendered.pc = "loop"
    /\ Len(rendered'.trace) = Len(rendered.trace) + 1

\* The record that the step executed, and its text after the caret.
StepRecord ==
    LET commands == parseZPL(rendered'.zpl)
    IN  commands[Len(commands)]

StepText == StepRecord.command \o StepRecord.params

\* The keys of FONTS.
SupportedFontIds == {"0", "A", "B", "C", "D", "E", "F", "G", "H"}

\* C26: a font selection ^A with a supported font id directly after the A
\* reaches the font handler: the font is that id, and the rotation, height
\* and width are what the handler reads after the A.
C26_FontIdReachesHandler ==
    [][(RecordStep /\ Len(StepText) >= 2 /\ StepText[1] = "A"
          /\ StepText[2] \in SupportedFontIds)
         => /\ renderer'.font = <<StepText[2]>>
            /\ renderer' = handleFont(renderer, Tail(StepText))]_vars
\* The record gives a font height and no width: a font selection whose
\* handler reads a height and no width after it, or a default-font change
\* with a second part and no third.
GivesHeightOnly(cmd) ==
    \/ /\ cmd.command \in {Name("A", ""), Name("A", "0")}
       /\ FontMatch(cmd.params)[3] # <<>>
       /\ FontMatch(cmd.params)[4] = <<>>
    \/ /\ cmd.command = Name("C", "F")
       /\ Part(split(cmd.params, ","), 1) # <<>>
       /\ Part(split(cmd.params, ","), 2) = <<>>

\* C27: after a font-selection or default-font-change record that gives a
\* height and no width, the font width equals the new font height.
C27_WidthDefaultsToHeight ==
    [][(RecordStep /\ GivesHeightOnly(StepRecord))
         => renderer'.fontWidth = renderer'.fontHeight]_vars

\* The keys of ROTATIONS.
Orientations == {<<"N">>, <<"R">>, <<"I">>, <<"B">>}

\* C28: in every reachable state of the interpreter the rotation is one of
\* the four orientations N, R, I, B.
C28_RotationIsOrientation == renderer.rotation \in Orientations

\* The last record executed by the render call in progress, when it has one.
HasLastRecord == rendered.pc = "loop" /\ rendered.trace # <<>>

LastRecord ==
    LET commands == parseZPL(rendered.zpl)
    IN  commands[Len(commands)]

\* The coordinate that part k of a field origin's parameters gives: the
\* number it starts with, or 0.
OriginPart(params, k) == OrElse(parseInt(Part(split(params, ","), k), 0), 0)

\* C29: after every field-origin record the cursor's x and y are the parsed
\* coordinates (0 for a missing or unparsable one), non-negative, and the
\* reverse-print flag is false; the cursor is non-negative in every reachable
\* state.
C29_CursorNonNegative ==
    /\ renderer.x >= 0 /\ renderer.y >= 0
    /\ (HasLastRecord /\ LastRecord.command = Name("F", "O"))
          => /\ renderer.x = OriginPart(LastRecord.params, 0)
             /\ renderer.y = OriginPart(LastRecord.params, 1)
             /\ ~renderer.fieldReversePrint

\* A field-reverse record is in the trace after the last field-origin or
\* field-data record of it.
ReverseMarked(trace) ==
    \E k \in 1..Len(trace) :
        /\ trace[k].command = Name("F", "R")
        /\ \A j \in (k + 1)..Len(trace) :
              trace[j].command \notin {Name("F", "O"), Name("F", "D")}

\* The step drew its text reversed: a black box, then the text in white.
DrewReversed ==
    LET n == Len(rendered'.draws)
    IN  /\ n = Len(rendered.draws) + 2
        /\ rendered'.draws[n - 1].op = "fillRect"
        /\ rendered'.draws[n - 1].color = "#000000"
        /\ rendered'.draws[n].op = "fillText"
        /\ rendered'.draws[n].color = "#ffffff"

\* The step drew its text plain: the text in black and nothing else.
DrewPlain ==
    LET n == Len(rendered'.draws)
    IN  /\ n = Len(rendered.draws) + 1
        /\ rendered'.draws[n].op = "fillText"
        /\ rendered'.draws[n].color = "#000000"

\* C30: a field-data record is drawn reversed exactly when a field-reverse
\* record came after the most recent field-origin or field-data record, and
\* after it the reverse-print flag is false: the marker affects at most the
\* next text field.
C30_ReverseForNextFieldOnly ==
    [][(RecordStep /\ StepRecord.command = Name("F", "D"))
         => /\ IF ReverseMarked(rendered.trace) THEN DrewReversed ELSE DrewPlain
            /\ ~renderer'.fieldReversePrint]_vars

\* ^FR^FDHi^FDHi: the first field was drawn reversed and the second plain.
C30_Witness ==
    /\ rendered.pc = "loop"
    /\ rendered.zpl = <<"^", "F", "R", "^", "F", "D", "H", "i", "^", "F", "D", "H", "i">>
    /\ rendered.trace[2].drew = 2
    /\ rendered.trace[3].drew = 1
    /\ Len(rendered.draws) = 4
    /\ rendered.draws[3].color = "#ffffff"
    /\ rendered.draws[4].color = "#000000"
    /\ ~renderer.fieldReversePrint

\* The step added no drawing call.
DrewNothing == rendered'.draws = rendered.draws

\* The orientation the record of the step gives: its parameters up to the
\* first comma.
StepOrientation ==
    LET params == StepRecord.params
        commas == {i \in 1..Len(params) : params[i] = ","}
    IN  IF commas = {} THEN params
        ELSE SubSeq(params, 1, (CHOOSE i \in commas : \A j \in commas : i <= j) - 1)

BoxPart(params, k) == OrElse(parseInt(Part(split(params, ","), k), 0), 1)

\* The drawing call the step issued last.
StepDraw == rendered'.draws[Len(rendered'.draws)]

\* C32: a graphic-box record of width w, height h and thickness t issues one
\* drawing call, a fill exactly when t >= min(w, h)/2 and a stroke otherwise,
\* be the box rounded or plain; and the stroke of a plain box is a band of
\* width t whose outer edge is the rectangle [x, x+w) x [y, y+h) at the
\* cursor (coordinates doubled).
C32_BoxFilledOrStrokedInside ==
    [][(RecordStep /\ StepRecord.command = Name("G", "B"))
         => LET w == BoxPart(StepRecord.params, 0)
                h == BoxPart(StepRecord.params, 1)
                t == BoxPart(StepRecord.params, 2)
            IN  /\ Len(rendered'.draws) = Len(rendered.draws) + 1
                /\ StepDraw.op \in {"fillRect", "fillPath", "strokeRect", "strokePath"}
                /\ StepDraw.op \in {"fillRect", "fillPath"} <=> 2 * t >= Min(w, h)
                /\ StepDraw.op = "strokeRect"
                     => /\ StepDraw.lineWidth = t
                        /\ StepDraw.x2 - StepDraw.lineWidth = 2 * renderer.x
                        /\ StepDraw.y2 - StepDraw.lineWidth = 2 * renderer.y
                        /\ StepDraw.x2 + 2 * StepDraw.w + StepDraw.lineWidth
                             = 2 * (renderer.x + w)
                        /\ StepDraw.y2 + 2 * StepDraw.h + StepDraw.lineWidth
                             = 2 * (renderer.y + h)]_vars

\* A pass of the dithering loop body was taken, at pixel monoCall.idx.
DitherStepTaken ==
    /\ monoCall.pc = "dither"
    /\ monoCall'.pc = "dither"
    /\ monoCall'.idx = monoCall.idx + 1

\* A value of a quantised pixel.
IsQuantised(value) == value \in {0, 255 * GrayUnit}

\* The offsets in columns and rows of the four neighbours, with the
\* sixteenths of the error each receives.
NeighbourWeights == {<<1, 0, 7>>, <<-1, 1, 3>>, <<0, 1, 5>>, <<1, 1, 1>>}

\* C33: with dither = true, for every width >= 1 and height >= 1, the pass at
\* pixel (x, y) adds error only to elements inside the buffer that come later
\* in the scan and are the east, south-west, south or south-east neighbour by
\* column and row (so none is reached by wrapping around a row end), with
\* 7, 3, 5 and 1 sixteenths; nothing else changes but the pixel itself, which
\* becomes 0 or 255; and the pixels visited before stay 0 or 255.
C33_ErrorToUnvisitedNeighbours ==
    [][DitherStepTaken =>
         LET width  == monoCall.width
             height == monoCall.height
             idx    == monoCall.idx
             x      == idx % width
             y      == idx \div width
             last   == width * height - 1
         IN  /\ \A write \in monoCall'.writes :
                  /\ write[1] \in 0..last
                  /\ write[1] > idx
                  /\ <<(write[1] % width) - x, (write[1] \div width) - y, write[2]>>
                        \in NeighbourWeights
             /\ \A j \in 0..last :
                  monoCall'.gray[j + 1] # monoCall.gray[j + 1]
                     => j = idx \/ \E write \in monoCall'.writes : write[1] = j
             /\ IsQuantised(monoCall'.gray[idx + 1])
             /\ \A j \in 0..(idx - 1) :
                  /\ IsQuantised(monoCall.gray[j + 1])
                  /\ monoCall'.gray[j + 1] = monoCall.gray[j + 1]]_vars

\* A dithered image one pixel wide and two high is done: the first pixel, a
\* dark gray, gave its error to the pixel below only, and both are quantised.
C33_Witness ==
    /\ monoCall.pc = "done"
    /\ monoCall.dither
    /\ monoCall.width = 1
    /\ monoCall.height = 2
    /\ monoCall.pixels[1] = <<16, 16, 16>>
    /\ monoCall.idx = 2
    /\ \A j \in 1..2 : IsQuantised(monoCall.gray[j])
    /\ monoCall.bitmap = toMonochromeBitmap(monoCall.pixels, 1, 2, TRUE)

\* The dots of a row that the raster header declares: eight for each of the
\* xL + 256 * xH bytes.
DeclaredDots(header) == 8 * (header[5] + 256 * header[6])

\* The bit that the printer is sent for the dot in column x of row y.
PrinterBit(x, y) ==
    BitOf(monoCall.printerData[y * CeilDiv(monoCall.width, 8) + (x \div 8) + 1],
          7 - (x % 8))

\* C34: for a width that is no multiple of 8, no dot of a row beyond the
\* label width is sent to the printer as a printable black dot: the trailing
\* bits of the row's last byte are outside the dot width the raster header
\* declares, or they are 0 (white for the printer).
C34_PaddingNotPrinted ==
    (monoCall.pc = "encoded" /\ monoCall.width % 8 # 0)
        => \A x \in monoCall.width..(8 * CeilDiv(monoCall.width, 8) - 1),
              y \in 0..(monoCall.height - 1) :
              x >= DeclaredDots(monoCall.header) \/ PrinterBit(x, y) = 0

\* C35: while a job is active (state.isPrinting is true) the print button is
\* disabled, so that no click can submit a second job, and the printer runs
\* no job but the one handlePrint is waiting for, whatever connection, size
\* and markup events run in between.
C35_OneJobAtATime ==
    /\ isPrinting => printBtnDisabled
    /\ (ppc # "idle" \/ result # "none") => isPrinting

\* A job is suspended after the link dropped and the printer was connected
\* again under it: there is a bitmap and a connection, and the button is
\* disabled by the job alone.
C35_Witness ==
    /\ isPrinting
    /\ ppc # "idle"
    /\ linkEvents >= 2
    /\ getConnectionStatus
    /\ ~currentBitmap.isNull
    /\ printBtnDisabled

\* A connect attempt finishes in this step: connect() returns or throws.
ConnectFinished == cpc # "none" /\ cpc' = "none"

\* C40: when a connect attempt has finished, with success or with failure,
\* the connect button reads 'Disconnect' and the status indicator shows
\* connected exactly when getConnectionStatus() is true, and the button
\* reads 'Connect Printer' and the indicator shows disconnected otherwise;
\* the button does not go on reading 'Connecting...'.
C40_ButtonAgreesAfterConnect ==
    [][ConnectFinished =>
         /\ connectBtnText' = (IF getConnectionStatus' THEN "Disconnect"
                               ELSE "Connect Printer")
         /\ connectionStatus' = (IF getConnectionStatus' THEN "connected"
                                 ELSE "disconnected")]_vars

\* The chunk writes of bitmap data in the log of a printBitmap job that has
\* sent its feed command: all but the first two (init, header) and the last.
DataChunkStarts(lg) ==
    {k \in ChunkStarts(lg) :
        /\ Cardinality({n \in ChunkStarts(lg) : n < k}) >= 2
        /\ Cardinality({n \in ChunkStarts(lg) : n > k}) >= 1}

\* C38: within one print job every two consecutive chunk writes of bitmap
\* data have a pacing delay between them, also the last chunk of one 8-row
\* slice and the first chunk of the next.
C38_DelayBetweenDataChunks ==
    (job.op = "printBitmap" /\ result = "resolved")
        => \A k \in DataChunkStarts(log), m \in DataChunkStarts(log) :
              (k < m /\ \A n \in DataChunkStarts(log) : ~(k < n /\ n < m))
                 => \E d \in (k + 1)..(m - 1) : IsDelay(log[d])

\* The step sets the label size to that of a preset, as handlePresetChange
\* does for the preset selected.
PresetChosen ==
    /\ validation' # validation
    /\ \E preset \in DOMAIN PRESETS :
          /\ labelWidth' = PRESETS[preset].width
          /\ labelHeight' = PRESETS[preset].height

\* C39: every preset offered passes the validation of the label size, and
\* selecting one while the markup is not empty yields a bitmap to print.
C39_PresetsPrintable ==
    [][PresetChosen =>
         /\ validation'.valid
         /\ trim(zpl') # <<>> => ~currentBitmap'.isNull]_vars

\* The job's arguments stay what they were from the call to the settling of
\* its promise.
JobKeepsBitmap == (result = "pending" /\ result' # "none") => job' = job

\* Every copy of a job of several copies that succeeded with every write
\* accepted is the stream of the bitmap the job was given.
CopiesIdentical ==
    (isPrinting /\ job.op = "printMultiple" /\ result = "resolved" /\ AllAccepted(log))
        => LET sent == Handed(log)
               one  == Len(sent) \div job.copies
           IN  /\ Len(sent) = one * job.copies
               /\ \A c \in 0..(job.copies - 1) :
                     SubSeq(sent, c * one + 1, (c + 1) * one) = ExpectedStream(job)

\* C36: printBitmap does not modify the bitmap it is given (the inversion
\* goes into a new array) and a running job keeps the bitmap it started with:
\* every copy of a job of several copies transmits the same bytes, those of
\* that bitmap, also when the preview is rendered again or cleared while the
\* job is suspended.
C36_CopiesOfOneBitmap == []CopiesIdentical /\ [][JobKeepsBitmap]_vars

\* Two copies of a label three dots high were sent, and the application holds
\* another bitmap by now, two dots high.
C36_Witness ==
    /\ isPrinting /\ job.op = "printMultiple" /\ result = "resolved"
    /\ AllAccepted(log)
    /\ job.copies = 2
    /\ job.height = 3
    /\ ~currentBitmap.isNull
    /\ currentBitmap.height = 2
    /\ Handed(log) = ExpectedStream(job) \o ExpectedStream(job)

\* A job that has written to the transport has written the init command
\* first; one that succeeded with every write accepted has sent the whole
\* stream of its bitmap; and when no job is left, state.isPrinting is false.
JobFromInit ==
    /\ (isPrinting /\ WriteEvents(log) # <<>>)
          => Head(WriteEvents(log)).data = buildInitCommand
    /\ (isPrinting /\ result = "resolved" /\ AllAccepted(log))
          => Handed(log) = ExpectedStream(job)
    /\ result = "none" => ~isPrinting /\ ppc = "idle" /\ log = <<>>

\* C37: every print job ends, and after it has ended, in success or with a
\* transport error, state.isPrinting is false again and nothing of the job is
\* kept: every job, a first one or one that follows another, starts with the
\* init command and, when it succeeds, sends the complete stream of its
\* bitmap.
C37_JobEndsClean == (isPrinting ~> ~isPrinting) /\ []JobFromInit

\* A job has failed with a transport error after the init command was
\* accepted: its promise is rejected, and handlePrint's finally is due.
C37_Witness ==
    /\ isPrinting
    /\ result = "rejected"
    /\ err.msg = "Write failed at byte"
    /\ err.wrapped
    /\ Len(WriteEvents(log)) >= 2
    /\ WriteEvents(log)[1].st = "ok"
====
